---------------------------- MODULE Spec2Model ----------------------------
(***************************************************************************)
(* Model of the OpenVax backend server (server.js and its tools):          *)
(*   - the signed email-change token codec                                 *)
(*       createEmailChangeToken / verifyEmailChangeToken                   *)
(*   - the one-time-passcode handlers  POST /send-otp, POST /verify-otp    *)
(*   - identity reconciliation  ensureUser (tools/createUser.js) and       *)
(*       POST /admin/ensure-auth-user                                      *)
(* Firebase Auth, Firestore and the mail transport are the environment:    *)
(* they are modelled by the state they keep (auth, otps, users) and by the *)
(* outcomes their calls can have.                                          *)
(***************************************************************************)
EXTENDS Integers, Sequences, FiniteSets, Bags, TLC

VARIABLES
    now,        \* Date.now(), in clock ticks
    issued,     \* the last token handed out by createEmailChangeToken (tokens are not stored server-side)
    validated,  \* the call of verifyEmailChangeToken just made: its arguments and its result
    otps,       \* Firestore collection "otps": document id -> document
    auth,       \* Firebase Auth: uid -> user record
    users,      \* Firestore collection "users": uid -> profile document
    nextUid,    \* Firebase Auth's supply of fresh uids
    vaccineStock, \* Firestore collection "vaccineStock": document id -> document
    inflight,   \* the requests being handled, each at one of its await points (a bag)
    lastResp,   \* the response most recently sent
    mailer,     \* whether the module-level transporter could be configured
    arrived,    \* how many requests have been taken up step by step (history)
    hist        \* per passcode key: what has happened to the key so far (history)

tokenVars == <<now, issued, validated>>
storeVars == <<otps, auth, users, nextUid, vaccineStock>>
reqVars   == <<inflight, lastResp, mailer, arrived, hist>>
vars      == <<now, issued, validated, otps, auth, users, nextUid, vaccineStock, inflight,
               lastResp, mailer, arrived, hist>>

----------------------------------------------------------------------------
(* Bounds of the model *)

MaxTime == 3        \* the clock runs from 1 to MaxTime
MaxInflight == 2    \* requests handled concurrently
MaxRequests == 3    \* requests taken up step by step in one behaviour
MaxNameLen == 4     \* symbols in the full names enumerated (the named examples are longer)
MaxUids == 2        \* uids Firebase Auth hands out in one behaviour

----------------------------------------------------------------------------
(* JavaScript values *)

\* A JS object with string-valued and number-valued own properties.
\* A property whose value is the string Undefined holds the JS value undefined.
Undefined == "undefined"
NoProps == <<>>
JsObject(str, num) == [str |-> str, num |-> num]

\* obj[k] in JS: undefined when k is no own property
Get(obj, k) ==
    IF k \in DOMAIN obj.num THEN <<"number", obj.num[k]>>
    ELSE IF k \in DOMAIN obj.str THEN <<"string", obj.str[k]>>
    ELSE <<"string", Undefined>>

Restrict(f, S) == [k \in (DOMAIN f) \cap S |-> f[k]]

Null == [null |-> TRUE]        \* the JS value null, as a function result
Thrown == [thrown |-> TRUE]    \* the call ended by throwing to its caller

----------------------------------------------------------------------------
(* Token codec *)

EMAIL_CHANGE_SECRET == "openvax-dev-secret"
Secrets == {EMAIL_CHANGE_SECRET, "other-secret"}

\* payloads handed to createEmailChangeToken; request-email-change passes {uid, newEmail}
Payloads ==
    { JsObject([uid |-> "u1", newEmail |-> "b@x.com"], NoProps),
      JsObject([uid |-> "u1", newEmail |-> Undefined], NoProps),
      JsObject([uid |-> "u2", exp |-> "never"], NoProps),
      JsObject(NoProps, NoProps) }

TtlSamples == {-1, 0, 1}

\* { ...payload, iat: issuedAt, exp: expiresAt }: iat and exp are written last and
\* replace the payload's own properties of these names
SpreadPayloadLast(payload, issuedAt, expiresAt) ==
    JsObject(payload.str,
             Restrict([iat |-> issuedAt, exp |-> expiresAt],
                      {"iat", "exp"} \ DOMAIN payload.str) @@ payload.num)
SpreadWithIatExp(payload, issuedAt, expiresAt) ==
    JsObject(Restrict(payload.str, (DOMAIN payload.str) \ {"iat", "exp"}),
             [iat |-> issuedAt, exp |-> expiresAt]
                 @@ Restrict(payload.num, (DOMAIN payload.num) \ {"iat", "exp"}))

\* JSON.stringify of an object: a property holding undefined is left out
JSONStringify(obj) ==
    [kind |-> "json",
     obj  |-> JsObject(Restrict(obj.str, {k \in DOMAIN obj.str : obj.str[k] # Undefined}),
                       obj.num)]
\* a byte string that is not JSON text
RawBytes(of) == [kind |-> "raw", of |-> of]
\* JSON.parse throws on text that is not JSON
JSONParses(text) == text.kind = "json"
JSONParse(text) == text.obj

\* Buffer.from(body).toString("base64url"); Buffer.from(seg, "base64url").toString("utf8")
\* decodes leniently: it never throws, and what is no encoding of a text gives raw bytes
Base64UrlEncode(text) == [kind |-> "b64", of |-> text]
Base64UrlDecode(seg) == IF seg.kind = "b64" THEN seg.of ELSE RawBytes(seg)

\* crypto.createHmac("sha256", secret).update(body).digest("hex"), as an ideal keyed
\* hash: two digests are equal only for the same key and the same message
HmacSha256Hex(secret, body) == [kind |-> "hex", key |-> secret, msg |-> body]
JunkSegment == [kind |-> "junk"]

\* A token as its caller holds it: a string, seen as the list token.split(".") of its
\* "."-free segments; a missing or empty value; or what the query parser makes of
\* ?token[]=... (an array, with or without an element ".") and ?token[k]=... (an object)
StringToken(segs) == [kind |-> "string", segs |-> segs]
MissingToken == [kind |-> "missing"]
ArrayToken(hasDot) == [kind |-> "array", hasDot |-> hasDot]
ObjectToken == [kind |-> "object"]

createEmailChangeToken(payload, secret, ttlMs, dateNow) ==
    LET issuedAt == dateNow
        expiresAt == issuedAt + ttlMs
        body == JSONStringify(SpreadWithIatExp(payload, issuedAt, expiresAt))
        signature == HmacSha256Hex(secret, body)
    IN  StringToken(<<Base64UrlEncode(body), signature>>)

\* expected !== signature
SignatureNeverChecked(bodyJson, signature, secret) == FALSE
SignatureMismatch(bodyJson, signature, secret) ==
    HmacSha256Hex(secret, bodyJson) # signature

\* Date.now() > Number(data.exp || 0): a missing exp counts as 0, and a non-numeric
\* one as NaN, which no time exceeds
TokenExpiredAtExp(data, dateNow) ==
    IF "exp" \in DOMAIN data.num THEN dateNow >= data.num.exp
    ELSE IF "exp" \in DOMAIN data.str THEN FALSE
    ELSE dateNow > 0
TokenExpired(data, dateNow) ==
    IF "exp" \in DOMAIN data.num THEN dateNow > data.num.exp
    ELSE IF "exp" \in DOMAIN data.str THEN FALSE
    ELSE dateNow > 0

verifyEmailChangeToken(token, secret, dateNow) ==
    IF token.kind = "missing" THEN Null
    ELSE IF token.kind = "object" THEN Thrown                  \* token.indexOf is not a function
    ELSE IF token.kind = "array" /\ ~token.hasDot THEN Null    \* indexOf(".") === -1
    ELSE IF token.kind = "array" THEN Thrown                   \* token.split is not a function
    ELSE IF Len(token.segs) = 1 THEN Null                      \* a string without "."
    ELSE LET bodyB64 == token.segs[1]
             signature == token.segs[2]
             bodyJson == Base64UrlDecode(bodyB64)
         IN  IF SignatureMismatch(bodyJson, signature, secret) THEN Null
             ELSE IF ~JSONParses(bodyJson) THEN Null           \* caught: return null
             ELSE IF TokenExpired(JSONParse(bodyJson), dateNow) THEN Null
             ELSE JSONParse(bodyJson)

NoToken == [kind |-> "none"]
NoResponse == [op |-> "none"]
NoValidation == [kind |-> "none"]

\* what a caller can hand to verifyEmailChangeToken besides the issued token itself
Forgeries ==
    {MissingToken, ObjectToken, ArrayToken(FALSE), ArrayToken(TRUE),
     StringToken(<<JunkSegment>>), StringToken(<<JunkSegment, JunkSegment>>)}
    \cup { StringToken(<<JunkSegment, HmacSha256Hex(s, RawBytes(JunkSegment))>>) : s \in Secrets }
    \cup (IF issued = NoToken THEN {}
          ELSE LET segs == issued.token.segs
               IN  { StringToken(<<segs[1]>>),
                     StringToken(<<segs[1], JunkSegment>>),
                     StringToken(<<JunkSegment, segs[2]>>),
                     StringToken(<<segs[2], segs[1]>>),
                     StringToken(segs \o <<JunkSegment>>) })

Tick ==
    /\ now < MaxTime
    /\ now' = now + 1
    /\ validated' = NoValidation
    /\ UNCHANGED <<issued, storeVars, reqVars>>

IssueToken ==
    \E payload \in Payloads, secret \in Secrets, ttlMs \in TtlSamples :
        /\ issued' = [kind |-> "token",
                      token |-> createEmailChangeToken(payload, secret, ttlMs, now),
                      payload |-> payload, secret |-> secret,
                      issuedAt |-> now, ttl |-> ttlMs]
        /\ validated' = NoValidation
        /\ UNCHANGED <<now, storeVars, reqVars>>

ValidateIssued ==
    \E secret \in Secrets :
        /\ issued # NoToken
        /\ validated' = [kind |-> "issued", token |-> issued.token, secret |-> secret,
                         at |-> now, of |-> issued,
                         result |-> verifyEmailChangeToken(issued.token, secret, now)]
        /\ UNCHANGED <<now, issued, storeVars, reqVars>>

ValidateForged ==
    \E token \in Forgeries, secret \in Secrets :
        /\ validated' = [kind |-> "forged", token |-> token, secret |-> secret,
                         at |-> now, of |-> issued,
                         result |-> verifyEmailChangeToken(token, secret, now)]
        /\ UNCHANGED <<now, issued, storeVars, reqVars>>

----------------------------------------------------------------------------
(* Strings the handlers compute with *)

\* request bodies: two spellings of one address; "" is a missing field
Emails == {"a@x.com", "A@x.com"}
NoField == ""

\* String.prototype.toLowerCase
ToLowerCase(s) ==
    CASE s = "A@x.com" -> "a@x.com"
      [] s = "B@x.com" -> "b@x.com"
      [] s = "ADMIN" -> "admin"
      [] OTHER -> s

\* encodeURIComponent(email): "@" becomes "%40", letters keep their case
encodeURIComponent(email) ==
    CASE email = "a@x.com" -> "a%40x.com"
      [] email = "A@x.com" -> "A%40x.com"
      [] OTHER -> email
\* the address a document id of "otps" stands for, in lower case
NormalizedEmailOfKey(key) ==
    CASE key = "a%40x.com" -> "a@x.com"
      [] key = "A%40x.com" -> "a@x.com"
      [] OTHER -> ToLowerCase(key)

OtpKeys == {encodeURIComponent(e) : e \in Emails}

----------------------------------------------------------------------------
(* Firebase Auth and Firestore, as the handlers use them *)

NoUid == 0
Uids == 1..MaxUids

\* a Firebase Auth user record
AuthUser(email, password) ==
    [email |-> email, password |-> password, emailVerified |-> TRUE, disabled |-> FALSE]

\* admin.auth().getUserByEmail(email): Firebase Auth keeps addresses in lower case
\* and looks them up regardless of case; NoUid stands for auth/user-not-found
getUserByEmail(email) ==
    IF \E u \in DOMAIN auth : auth[u].email = ToLowerCase(email)
    THEN CHOOSE u \in DOMAIN auth : auth[u].email = ToLowerCase(email)
    ELSE NoUid

\* docRef.set(doc) without merge: the document is created or replaced as a whole
FirestoreSetIfAbsent(coll, id, doc) ==
    IF id \in DOMAIN coll THEN coll ELSE (id :> doc) @@ coll
FirestoreSet(coll, id, doc) == (id :> doc) @@ coll
\* docRef.delete(): succeeds whether or not the document exists
FirestoreDelete(coll, id) == [k \in (DOMAIN coll) \ {id} |-> coll[k]]
\* docRef.get()
NoSnapshot == [exists |-> FALSE]
FirestoreGet(coll, id) ==
    IF id \in DOMAIN coll THEN [exists |-> TRUE, data |-> coll[id]] ELSE NoSnapshot

----------------------------------------------------------------------------
(* One-time passcodes: POST /send-otp and POST /verify-otp *)

OTP_TTL == 1            \* 5 * 60 * 1000 ms, in clock ticks
OtpBase == 100000
OtpSpan == 900000
\* Math.floor(Math.random() * 900000): the draws the model makes
RandomSamples == {0, OtpSpan - 1}
\* Math.floor(Math.random() * 900000) alone, rendered
OtpFromRandomNoBase(r) == ToString(r)
\* Math.floor(100000 + Math.random() * 900000).toString()
OtpFromRandom(r) == ToString(OtpBase + r)
OtpCodes == {OtpFromRandom(r) : r \in RandomSamples}
NoCode == "none"
\* what a client sends as the code: a code that can be issued, or nothing
OtpInputs == OtpCodes \cup {NoField}

\* lines 330-334: the document written under the key (createdAt is written and never read)
OtpDocument(otp, expiresAt) == [otp |-> otp, expiresAt |-> expiresAt]

\* lines 323-328: updateUser(uid, { password: otp }) for the uid getUserByEmail gave;
\* an unknown user (at the lookup or at the update) is logged and swallowed
AuthAfterPasswordUpdate(uid, otp) ==
    IF uid \in DOMAIN auth THEN [auth EXCEPT ![uid].password = otp] ELSE auth

\* lines 322-329: the credential sync inside its own try/catch.  The lookup finds no
\* identity, or updateUser rejects, or the password becomes the code; a failure is
\* logged and not thrown further
SyncOutcomes == {"OK", "UPDATE_FAILED"}
CredentialSyncUncaught(uid, otp, outcome) ==
    IF uid \notin DOMAIN auth
    THEN [auth |-> auth, sync |-> "NO_IDENTITY", thrown |-> TRUE]
    ELSE IF outcome = "UPDATE_FAILED"
    THEN [auth |-> auth, sync |-> "UPDATE_FAILED", thrown |-> TRUE]
    ELSE [auth |-> AuthAfterPasswordUpdate(uid, otp), sync |-> "OK", thrown |-> FALSE]
CredentialSync(uid, otp, outcome) ==
    IF uid \notin DOMAIN auth
    THEN [auth |-> auth, sync |-> "NO_IDENTITY", thrown |-> FALSE]
    ELSE IF outcome = "UPDATE_FAILED"
    THEN [auth |-> auth, sync |-> "UPDATE_FAILED", thrown |-> FALSE]
    ELSE [auth |-> AuthAfterPasswordUpdate(uid, otp), sync |-> "OK", thrown |-> FALSE]

\* lines 385-403: what the mail step can come to
MailOutcomes == IF mailer THEN {"SENT", "TRANSPORT_ERROR"} ELSE {"NOT_CONFIGURED"}

\* lines 784-800: what verify-otp answers for the snapshot it read, and whether it
\* deletes the document
VerifyOtpKeepsOnMatch(snap, otp, dateNow) ==
    IF ~snap.exists THEN [result |-> "NOT_FOUND", delete |-> FALSE]
    ELSE IF dateNow > snap.data.expiresAt THEN [result |-> "EXPIRED", delete |-> TRUE]
    ELSE IF snap.data.otp = otp THEN [result |-> "OK", delete |-> FALSE]
    ELSE [result |-> "MISMATCH", delete |-> FALSE]
VerifyOtpKeepsExpired(snap, otp, dateNow) ==
    IF ~snap.exists THEN [result |-> "NOT_FOUND", delete |-> FALSE]
    ELSE IF dateNow > snap.data.expiresAt THEN [result |-> "EXPIRED", delete |-> FALSE]
    ELSE IF snap.data.otp = otp THEN [result |-> "OK", delete |-> TRUE]
    ELSE [result |-> "MISMATCH", delete |-> FALSE]
VerifyOtpDeletesOnMismatch(snap, otp, dateNow) ==
    IF ~snap.exists THEN [result |-> "NOT_FOUND", delete |-> FALSE]
    ELSE IF dateNow > snap.data.expiresAt THEN [result |-> "EXPIRED", delete |-> TRUE]
    ELSE IF snap.data.otp = otp THEN [result |-> "OK", delete |-> TRUE]
    ELSE [result |-> "MISMATCH", delete |-> TRUE]
VerifyOtpOutcome(snap, otp, dateNow) ==
    IF ~snap.exists THEN [result |-> "NOT_FOUND", delete |-> FALSE]
    ELSE IF dateNow > snap.data.expiresAt THEN [result |-> "EXPIRED", delete |-> TRUE]
    ELSE IF snap.data.otp = otp THEN [result |-> "OK", delete |-> TRUE]
    ELSE [result |-> "MISMATCH", delete |-> FALSE]

\* History of a passcode key.  curOtp is the code of the latest issuance stored under
\* it.  state is "none" before any issuance, "quiet" while no verify-otp has been
\* answered since the latest issuance, "OK" or "EXPIRED" once a verify-otp has
\* answered so since then, and "tried" when the answers since were only others.
\* prev is the code of the issuance before the latest when the two were stored in
\* succession: no verify-otp was answered between them, nor since.  accepted tells
\* whether a verify-otp that had read the latest issuance has answered OK.
NoHistory == [curOtp |-> NoCode, prev |-> NoCode, state |-> "none", accepted |-> FALSE]
HistAfterStore(h, otp) ==
    [curOtp |-> otp, prev |-> IF h.state = "quiet" THEN h.curOtp ELSE NoCode,
     state |-> "quiet", accepted |-> FALSE]
HistAfterVerify(h, result, current) ==
    [curOtp |-> h.curOtp, prev |-> NoCode,
     state |-> IF result \in {"OK", "EXPIRED"} THEN result
               ELSE IF h.state = "quiet" THEN "tried" ELSE h.state,
     accepted |-> h.accepted \/ (result = "OK" /\ current)]

SendOtpResponse(email, otp, mail, sync) ==
    [op |-> "send-otp", email |-> email, otp |-> otp,
     status |-> IF mail = "SENT" THEN 200 ELSE 500, result |-> mail, sync |-> sync]
Required(op) == [op |-> op, status |-> 400, result |-> "REQUIRED"]
VerifyOtpResponse(email, otp, snap, seen, out, docAfter, again) ==
    [op |-> "verify-otp", email |-> email, otp |-> otp,
     status |-> IF out.result = "OK" THEN 200 ELSE 400, result |-> out.result,
     snap |-> snap, seen |-> seen, at |-> now, docAfter |-> docAfter, again |-> again]

(* The handlers, each run from the request to the response with no other request in
   between: what a client sees that waits for each response before its next request. *)

\* POST /send-otp, lines 309-405
SendOtpFrom(syncs) ==
    \E email \in Emails \cup {NoField}, r \in RandomSamples, mail \in MailOutcomes,
       outcome \in syncs :
        /\ validated' = NoValidation
        /\ IF email = NoField
           THEN /\ lastResp' = Required("send-otp")
                /\ UNCHANGED <<otps, auth, hist>>
           ELSE LET otp == OtpFromRandom(r)
                    expiresAt == now + OTP_TTL
                    emailKey == encodeURIComponent(email)
                    synced == CredentialSync(getUserByEmail(email), otp, outcome)
                IN  IF synced.thrown
                    THEN \* the outer catch, line 401
                         /\ lastResp' = SendOtpResponse(email, otp, "FAILED", synced.sync)
                         /\ UNCHANGED <<otps, auth, hist>>
                    ELSE /\ auth' = synced.auth
                         /\ otps' = FirestoreSet(otps, emailKey, OtpDocument(otp, expiresAt))
                         /\ hist' = [hist EXCEPT ![emailKey] = HistAfterStore(@, otp)]
                         /\ lastResp' = SendOtpResponse(email, otp, mail, synced.sync)
        /\ UNCHANGED <<now, issued, users, nextUid, inflight, mailer, vaccineStock, arrived>>

SendOtp == SendOtpFrom({"OK"})

\* POST /verify-otp, lines 772-805
VerifyOtp ==
    \E email \in Emails \cup {NoField}, otp \in OtpInputs :
        /\ validated' = NoValidation
        /\ IF email = NoField \/ otp = NoField
           THEN /\ lastResp' = Required("verify-otp")
                /\ UNCHANGED <<otps, hist>>
           ELSE LET emailKey == encodeURIComponent(email)
                    docSnap == FirestoreGet(otps, emailKey)
                    out == VerifyOtpOutcome(docSnap, otp, now)
                IN  /\ otps' = IF out.delete THEN FirestoreDelete(otps, emailKey) ELSE otps
                    /\ hist' = [hist EXCEPT ![emailKey] = HistAfterVerify(@, out.result, TRUE)]
                    /\ lastResp' = VerifyOtpResponse(email, otp, docSnap, hist[emailKey], out,
                                                     emailKey \in DOMAIN otps', FALSE)
        /\ UNCHANGED <<now, issued, auth, users, nextUid, inflight, mailer, vaccineStock, arrived>>

\* the clock, for the passcode handlers
TickOtp ==
    /\ now < MaxTime
    /\ now' = now + 1
    /\ lastResp' = NoResponse
    /\ UNCHANGED <<issued, validated, storeVars, inflight, mailer, arrived, hist>>

(* The same handlers step by step: a request is in flight from its first awaited call
   to its response, and the steps of several requests interleave. *)

Arrive(req) == inflight' = inflight (+) SetToBag({req})
Advance(req, next) == inflight' = (inflight (-) SetToBag({req})) (+) SetToBag({next})
Leave(req) == inflight' = inflight (-) SetToBag({req})
CanArrive == BagCardinality(inflight) < MaxInflight /\ arrived < MaxRequests

\* lines 316-323: the code and its expiry are fixed, then getUserByEmail is awaited
SendOtpLookupFrom(emails) ==
    \E email \in emails, r \in RandomSamples :
        /\ CanArrive
        /\ LET uid == getUserByEmail(email)
           IN  Arrive([op |-> "send-otp",
                       pc |-> IF uid = NoUid THEN "set" ELSE "updateUser",
                       email |-> email, otp |-> OtpFromRandom(r),
                       expiresAt |-> now + OTP_TTL, uid |-> uid])
        /\ lastResp' = NoResponse
        /\ validated' = NoValidation
        /\ arrived' = arrived + 1
        /\ UNCHANGED <<now, issued, storeVars, mailer, hist>>

SendOtpLookup == SendOtpLookupFrom(Emails)

\* lines 324-328: updateUser(uid, { password: otp })
SendOtpUpdateUser ==
    \E req \in BagToSet(inflight) :
        /\ req.op = "send-otp" /\ req.pc = "updateUser"
        /\ auth' = AuthAfterPasswordUpdate(req.uid, req.otp)
        /\ Advance(req, [req EXCEPT !.pc = "set"])
        /\ lastResp' = NoResponse
        /\ validated' = NoValidation
        /\ UNCHANGED <<now, issued, otps, users, nextUid, mailer, vaccineStock, arrived, hist>>

\* a verify-otp in flight for the key no longer holds a snapshot of the latest issuance
RECURSIVE Outdated(_, _)
Outdated(bag, key) ==
    IF BagToSet(bag) = {} THEN EmptyBag
    ELSE LET req == CHOOSE x \in BagToSet(bag) : TRUE
             rest == [x \in BagToSet(bag) \ {req} |-> bag[x]]
             marked == IF req.op = "verify-otp" /\ encodeURIComponent(req.email) = key
                       THEN [req EXCEPT !.current = FALSE] ELSE req
         IN  Outdated(rest, key) (+) (marked :> bag[req])

\* lines 330-403: the record is set, the mail is sent and the response goes out
SendOtpStore ==
    \E req \in BagToSet(inflight), mail \in MailOutcomes :
        /\ req.op = "send-otp" /\ req.pc = "set"
        /\ LET emailKey == encodeURIComponent(req.email)
           IN  /\ otps' = FirestoreSet(otps, emailKey, OtpDocument(req.otp, req.expiresAt))
               /\ hist' = [hist EXCEPT ![emailKey] = HistAfterStore(@, req.otp)]
               /\ inflight' = Outdated(inflight (-) SetToBag({req}), emailKey)
        /\ lastResp' = SendOtpResponse(req.email, req.otp, mail,
                                       IF req.uid = NoUid THEN "NO_IDENTITY" ELSE "OK")
        /\ validated' = NoValidation
        /\ UNCHANGED <<now, issued, auth, users, nextUid, mailer, vaccineStock, arrived>>

\* lines 779-782: the document is read
VerifyOtpRead ==
    \E email \in Emails, otp \in OtpCodes :
        /\ CanArrive
        /\ LET emailKey == encodeURIComponent(email)
           IN  Arrive([op |-> "verify-otp", pc |-> "afterGet", email |-> email,
                       otp |-> otp, snap |-> FirestoreGet(otps, emailKey),
                       seen |-> hist[emailKey], current |-> TRUE])
        /\ lastResp' = NoResponse
        /\ validated' = NoValidation
        /\ arrived' = arrived + 1
        /\ UNCHANGED <<now, issued, storeVars, mailer, hist>>

\* lines 784-800: the snapshot is judged at the present time, the document is deleted
\* when the code matched or had expired, and the response goes out
VerifyOtpFinish ==
    \E req \in BagToSet(inflight) :
        /\ req.op = "verify-otp" /\ req.pc = "afterGet"
        /\ LET emailKey == encodeURIComponent(req.email)
               out == VerifyOtpOutcome(req.snap, req.otp, now)
               again == /\ out.result = "OK" /\ req.current
                        /\ hist[emailKey].accepted
           IN  /\ otps' = IF out.delete THEN FirestoreDelete(otps, emailKey) ELSE otps
               /\ hist' = [hist EXCEPT ![emailKey] = HistAfterVerify(@, out.result, req.current)]
               /\ lastResp' = VerifyOtpResponse(req.email, req.otp, req.snap, req.seen, out,
                                                emailKey \in DOMAIN otps', again)
        /\ Leave(req)
        /\ validated' = NoValidation
        /\ UNCHANGED <<now, issued, auth, users, nextUid, mailer, vaccineStock, arrived>>

----------------------------------------------------------------------------
(* Identity reconciliation: tools/createUser.js and POST /admin/ensure-auth-user *)

\* addresses the reconciliation is asked for
EnsureEmails == Emails \cup {"b@x.com"}

\* passwords a caller supplies; Firebase Auth refuses a password of fewer than six
\* characters with auth/invalid-password
StrongPassword == "P4ssword!"
ShortPassword == "12345"
PasswordInputs == {NoField, StrongPassword, ShortPassword}
ValidPassword(p) == p \notin {NoField, ShortPassword}

\* decimal digits and the number a string of them writes
DecimalDigits == {"0", "1", "2", "3", "4", "5", "6", "7", "8", "9"}
DigitValue(c) ==
    CASE c = "0" -> 0 [] c = "1" -> 1 [] c = "2" -> 2 [] c = "3" -> 3 [] c = "4" -> 4
      [] c = "5" -> 5 [] c = "6" -> 6 [] c = "7" -> 7 [] c = "8" -> 8 [] c = "9" -> 9
RECURSIVE ParseDecimal(_)
ParseDecimal(code) ==
    IF Len(code) = 0 THEN 0
    ELSE 10 * ParseDecimal(SubSeq(code, 1, Len(code) - 1))
           + DigitValue(SubSeq(code, Len(code), Len(code)))

\* new Date(b) for a date-only string YYYY-MM-DD: midnight UTC of that calendar day,
\* Invalid Date for a string that is no date
DaysInMonth(y, m) ==
    IF m = 2 THEN (IF (y % 4 = 0 /\ y % 100 # 0) \/ y % 400 = 0 THEN 29 ELSE 28)
    ELSE IF m \in {4, 6, 9, 11} THEN 30 ELSE 31
InvalidDate == [valid |-> FALSE]
NewDate(b) ==
    IF /\ Len(b) = 10
       /\ SubSeq(b, 5, 5) = "-" /\ SubSeq(b, 8, 8) = "-"
       /\ \A i \in {1, 2, 3, 4, 6, 7, 9, 10} : SubSeq(b, i, i) \in DecimalDigits
    THEN LET y == ParseDecimal(SubSeq(b, 1, 4))
             m == ParseDecimal(SubSeq(b, 6, 7))
             d == ParseDecimal(SubSeq(b, 9, 10))
         IN  IF m \in 1..12 /\ d \in 1..DaysInMonth(y, m)
             THEN [valid |-> TRUE, y |-> y, m |-> m, d |-> d]
             ELSE InvalidDate
    ELSE InvalidDate
\* getFullYear(), getMonth() + 1 and getDate() of midnight UTC, read in the server's
\* time zone, tz hours east of UTC: west of UTC it is still the day before
UTC == 0
TimeZones == {0 - 5, UTC, 8}
LocalDate(date, tz) ==
    IF tz >= 0 THEN date
    ELSE IF date.d > 1 THEN [date EXCEPT !.d = @ - 1]
    ELSE IF date.m > 1
    THEN [date EXCEPT !.m = @ - 1, !.d = DaysInMonth(date.y, date.m - 1)]
    ELSE [date EXCEPT !.y = @ - 1, !.m = 12, !.d = 31]
\* String(n).padStart(2, '0')
PadStart2(n) == IF n < 10 THEN "0" \o ToString(n) ELSE ToString(n)

\* birthdays a caller supplies, and server.js lines 591-600: the rendering of
\* new Date(b) as month, day and year in the server's time zone, NoField when b is
\* absent or no date
Birthdays == {NoField, "2000-01-31", "soon"}
BirthdayPasswordIn(b, tz) ==
    IF b = NoField \/ ~NewDate(b).valid THEN NoField
    ELSE LET d == LocalDate(NewDate(b), tz)
         IN  PadStart2(d.m) \o PadStart2(d.d) \o ToString(d.y)
\* the same on a server whose time zone is UTC
BirthdayPassword(b) == BirthdayPasswordIn(b, UTC)
\* server.js line 603: Math.random().toString(36).slice(-10) + 'Aa1!'
RandomPasswords == {"k3j9x0q2mzAa1!"}
\* server.js lines 588-604
PasswordRawIn(password, birthday, random, tz) ==
    IF password # NoField THEN password
    ELSE IF BirthdayPasswordIn(birthday, tz) # NoField THEN BirthdayPasswordIn(birthday, tz)
    ELSE random
PasswordRaw(password, birthday, random) == PasswordRawIn(password, birthday, random, UTC)

\* admin.auth().createUser({ email, password, emailVerified: true, disabled: false })
\* on the records a with next the uid Firebase would hand out
AuthCreateUser(a, next, email, password) ==
    IF ~ValidPassword(password)
    THEN [code |-> "auth/invalid-password", uid |-> NoUid, auth |-> a]
    ELSE IF \E u \in DOMAIN a : a[u].email = ToLowerCase(email)
    THEN [code |-> "auth/email-already-exists", uid |-> NoUid, auth |-> a]
    ELSE [code |-> "ok", uid |-> next,
          auth |-> (next :> AuthUser(ToLowerCase(email), password)) @@ a]

\* admin.auth().updateUser(uid, { password }) alone
AuthUpdateUserPasswordOnly(a, uid, password) ==
    IF uid \notin DOMAIN a THEN [code |-> "auth/user-not-found", auth |-> a]
    ELSE IF ~ValidPassword(password) THEN [code |-> "auth/invalid-password", auth |-> a]
    ELSE [code |-> "ok", auth |-> [a EXCEPT ![uid].password = password]]
\* admin.auth().updateUser(uid, { password, emailVerified: true, disabled: false })
AuthUpdateUser(a, uid, password) ==
    IF uid \notin DOMAIN a THEN [code |-> "auth/user-not-found", auth |-> a]
    ELSE IF ~ValidPassword(password) THEN [code |-> "auth/invalid-password", auth |-> a]
    ELSE [code |-> "ok",
          auth |-> [a EXCEPT ![uid] = AuthUser(a[uid].email, password)]]

\* docRef.set(fields, { merge: true }): the fields given replace those of the same
\* name, the document's other fields stay
FirestoreSetMerge(coll, id, fields) ==
    LET old == IF id \in DOMAIN coll THEN coll[id] ELSE <<>>
    IN  (id :> (fields @@ old)) @@ coll

\* the Authorization headers of requests: none, a bearer token that does not verify,
\* or an ID token Firebase issued for a uid
NoHeader == [bearer |-> FALSE]
JunkHeader == [bearer |-> TRUE, verifies |-> FALSE, uid |-> NoUid]
IdTokenHeader(uid) == [bearer |-> TRUE, verifies |-> TRUE, uid |-> uid]
AuthHeaders == {NoHeader, JunkHeader} \cup {IdTokenHeader(u) : u \in Uids}

\* server.js lines 144-148
getUserRole(uid) ==
    IF uid \in DOMAIN users /\ "role" \in DOMAIN users[uid] THEN users[uid].role ELSE "null"

\* server.js lines 150-170, requireAuth then requireRole(role): the status the chain
\* answers with, 0 when it calls the handler
requireAuthOnly(header, role) ==
    IF ~header.bearer THEN 401
    ELSE IF ~header.verifies THEN 401
    ELSE 0
requireRole(header, role) ==
    IF ~header.bearer THEN 401
    ELSE IF ~header.verifies THEN 401
    ELSE IF getUserRole(header.uid) # role THEN 403
    ELSE 0

\* the identity and the profile a uid has, before a call (history)
AccountStatus(a, docs, uid) ==
    [identity |-> uid \in DOMAIN a,
     disabled |-> uid \in DOMAIN a /\ a[uid].disabled,
     profile |-> uid \in DOMAIN docs /\ "isActive" \in DOMAIN docs[uid],
     isActive |-> uid \in DOMAIN docs /\ "isActive" \in DOMAIN docs[uid]
                  /\ docs[uid].isActive]

EnsureOps == {"ensure-auth-user", "createUser.js"}
\* what the previous response tells about the address, when it was a successful
\* reconciliation of the same address (history)
NoPrior == [any |-> FALSE]
PriorEnsure(emailLower) ==
    IF lastResp.op \in EnsureOps /\ lastResp.ok /\ lastResp.email = emailLower
    THEN [any |-> TRUE, body |-> lastResp.body, before |-> lastResp.before]
    ELSE NoPrior
EnsureResponse(op, status, ok, emailLower, body, asked) ==
    [op |-> op, status |-> status, ok |-> ok, email |-> emailLower, body |-> body,
     asked |-> asked,
     before |-> getUserByEmail(emailLower), prior |-> PriorEnsure(emailLower),
     was |-> AccountStatus(auth, users, getUserByEmail(emailLower))]

\* server.js lines 606-626: the uid found for emailLower, and the records after
EnsureAuthUserOutcome(emailLower, passwordRaw) ==
    LET created == AuthCreateUser(auth, nextUid, emailLower, passwordRaw)
        existing == getUserByEmail(emailLower)
        updated == AuthUpdateUser(auth, existing, passwordRaw)
    IN  IF created.code = "ok"
        THEN [threw |-> FALSE, uid |-> created.uid, auth |-> created.auth,
              nextUid |-> nextUid + 1]
        ELSE IF created.code = "auth/email-already-exists" /\ updated.code = "ok"
        THEN [threw |-> FALSE, uid |-> existing, auth |-> updated.auth,
              nextUid |-> nextUid]
        ELSE [threw |-> TRUE, uid |-> NoUid, auth |-> auth, nextUid |-> nextUid]

\* POST /admin/ensure-auth-user, server.js lines 582-631, for the passwords and the
\* birthdays of two sets
EnsureAuthUserRequest(header, email, password, birthday, random, tz) ==
        LET denied == requireRole(header, "admin")
            emailLower == ToLowerCase(email)
            passwordRaw == PasswordRawIn(password, birthday, random, tz)
            out == EnsureAuthUserOutcome(emailLower, passwordRaw)
        IN  /\ IF denied # 0
               THEN /\ lastResp' = EnsureResponse("ensure-auth-user", denied, FALSE,
                                                  emailLower, [success |-> FALSE], NoField)
                    /\ UNCHANGED <<auth, nextUid>>
               ELSE IF email = NoField
               THEN /\ lastResp' = EnsureResponse("ensure-auth-user", 400, FALSE,
                                                  emailLower, [success |-> FALSE], NoField)
                    /\ UNCHANGED <<auth, nextUid>>
               ELSE IF out.threw
               THEN /\ lastResp' = EnsureResponse("ensure-auth-user", 500, FALSE,
                                                  emailLower, [success |-> FALSE], passwordRaw)
                    /\ UNCHANGED <<auth, nextUid>>
               ELSE /\ out.uid \in Uids
                    /\ auth' = out.auth
                    /\ nextUid' = out.nextUid
                    /\ lastResp' = EnsureResponse("ensure-auth-user", 200, TRUE, emailLower,
                                                  [success |-> TRUE, uid |-> out.uid],
                                                  passwordRaw)
            /\ validated' = NoValidation
            /\ UNCHANGED <<now, issued, otps, users, mailer, vaccineStock, arrived, hist>>

\* the route on a server in UTC, for the passwords and the birthdays of two sets
EnsureAuthUserFrom(passwords, birthdays) ==
    \E header \in AuthHeaders, email \in EnsureEmails \cup {NoField},
       password \in passwords, birthday \in birthdays, random \in RandomPasswords :
        /\ EnsureAuthUserRequest(header, email, password, birthday, random, UTC)
        /\ UNCHANGED inflight

EnsureAuthUser == EnsureAuthUserFrom(PasswordInputs, Birthdays)

\* the route answering a request that has arrived, on a server in the time zone the
\* request was drawn with
WideBirthdays ==
    Birthdays \cup {"2000-03-01", "2001-01-01", "1999-12-05", "0999-05-05", "2000-13-01"}
WidePasswords == PasswordInputs \cup {"01312000"}
EnsureRequests ==
    {[op |-> "ensure-auth-user", pc |-> "arrived", header |-> header, email |-> email,
      password |-> password, birthday |-> birthday, random |-> random, tz |-> tz] :
        header \in AuthHeaders, email \in EnsureEmails \cup {NoField},
        password \in WidePasswords, birthday \in WideBirthdays,
        random \in RandomPasswords, tz \in TimeZones}
EnsureAuthUserArrived ==
    \E req \in BagToSet(inflight) :
        /\ req.op = "ensure-auth-user" /\ req.pc = "arrived"
        /\ EnsureAuthUserRequest(req.header, req.email, req.password, req.birthday,
                                 req.random, req.tz)
        /\ Leave(req)

\* createUser.js line 23: (process.argv[4] || 'admin').trim()
RoleArgs == {NoField, "employee", " admin "}
Trim(s) ==
    CASE s = " admin " -> "admin"
      [] s = "ADMIN " -> "ADMIN"
      [] OTHER -> s
RoleOfArg(arg) == Trim(IF arg = NoField THEN "admin" ELSE arg)

\* createUser.js lines 31-75: what ensureUser returns, and the records after
ensureUser(email, password, role) ==
    LET newUser == AuthCreateUser(auth, nextUid, email, password)
        existing == getUserByEmail(email)
        updated == AuthUpdateUser(auth, existing, password)
    IN  IF newUser.code = "ok"
        THEN [threw |-> FALSE, result |-> [created |-> TRUE, uid |-> newUser.uid],
              auth |-> newUser.auth, nextUid |-> nextUid + 1,
              users |-> FirestoreSetMerge(users, newUser.uid,
                            [email |-> email, role |-> role, isEmailVerified |-> TRUE,
                             createdAt |-> now])]
        ELSE IF newUser.code = "auth/email-already-exists" /\ updated.code = "ok"
        THEN [threw |-> FALSE,
              result |-> [created |-> FALSE, uid |-> existing, passwordReset |-> TRUE],
              auth |-> updated.auth, nextUid |-> nextUid,
              users |-> FirestoreSetMerge(users, existing,
                            [email |-> email, role |-> role, isEmailVerified |-> TRUE,
                             updatedAt |-> now])]
        ELSE [threw |-> TRUE, result |-> <<>>, auth |-> auth, nextUid |-> nextUid,
              users |-> users]

\* node createUser.js <email> <password> [role], lines 19-28 and 77-85: the exit
\* status and the JSON printed
EnsureUserToolFrom(roleArgs) ==
    \E email \in EnsureEmails \cup {NoField}, password \in PasswordInputs,
       roleArg \in roleArgs :
        LET role == RoleOfArg(roleArg)
            emailLower == ToLowerCase(email)
            out == ensureUser(emailLower, password, role)
        IN  /\ IF email = NoField \/ password = NoField
               THEN /\ lastResp' = EnsureResponse("createUser.js", 1, FALSE, emailLower,
                                                  [success |-> FALSE], NoField)
                    /\ UNCHANGED <<auth, users, nextUid>>
               ELSE IF out.threw
               THEN /\ lastResp' = EnsureResponse("createUser.js", 2, FALSE, emailLower,
                                                  [success |-> FALSE], password)
                    /\ UNCHANGED <<auth, users, nextUid>>
               ELSE /\ out.result.uid \in Uids
                    /\ auth' = out.auth
                    /\ users' = out.users
                    /\ nextUid' = out.nextUid
                    /\ lastResp' = EnsureResponse("createUser.js", 0, TRUE, emailLower,
                                      [success |-> TRUE, email |-> email, role |-> role]
                                          @@ out.result,
                                      password)
            /\ validated' = NoValidation
            /\ UNCHANGED <<now, issued, otps, inflight, mailer, vaccineStock, arrived, hist>>

EnsureUserTool == EnsureUserToolFrom(RoleArgs)

----------------------------------------------------------------------------
(* Names: POST /admin/create-admin, server.js lines 461-491 *)

\* A name string is a sequence of symbols: a word (a run of characters that are
\* neither white space nor a comma), one white-space character, or one comma.  Two
\* words never stand side by side.  The absent field and "" are both <<>>.
SP == " "
COMMA == ","
NameWords == {"Juan", "Cruz"}
WellFormed(s) == \A i \in 1..(Len(s) - 1) : s[i] \in {SP, COMMA} \/ s[i + 1] \in {SP, COMMA}
NamesUpTo(n) ==
    {s \in UNION {[1..k -> NameWords \cup {SP, COMMA}] : k \in 0..n} : WellFormed(s)}

\* "Dela Cruz, Juan Miguel" and "Juan Dela Cruz"
DelaCruzJuanMiguel == <<"Dela", SP, "Cruz", COMMA, SP, "Juan", SP, "Miguel">>
JuanDelaCruz == <<"Juan", SP, "Dela", SP, "Cruz">>
\* "Cruz, Juan, Miguel"
CruzJuanMiguel == <<"Cruz", COMMA, SP, "Juan", COMMA, SP, "Miguel">>
FullNames == NamesUpTo(MaxNameLen) \cup {DelaCruzJuanMiguel, JuanDelaCruz, CruzJuanMiguel}

\* String.prototype.trim
RECURSIVE TrimStart(_)
TrimStart(s) == IF s # <<>> /\ Head(s) = SP THEN TrimStart(Tail(s)) ELSE s
RECURSIVE TrimEnd(_)
TrimEnd(s) == IF s # <<>> /\ s[Len(s)] = SP THEN TrimEnd(SubSeq(s, 1, Len(s) - 1)) ELSE s
\* line 462: const trim = (s) => (s || "").trim()
trim(s) == TrimEnd(TrimStart(s))

\* f.includes(",")
Includes(s, c) == \E i \in 1..Len(s) : s[i] = c
\* f.split(","): the pieces between the commas, all of them
RECURSIVE SplitOn(_, _)
SplitOn(s, c) ==
    IF ~Includes(s, c) THEN <<s>>
    ELSE LET i == CHOOSE i \in 1..Len(s) : s[i] = c /\ \A j \in 1..(i - 1) : s[j] # c
         IN  <<SubSeq(s, 1, i - 1)>> \o SplitOn(SubSeq(s, i + 1, Len(s)), c)
\* s.split(/\s+/).filter(Boolean), of a string without commas: its words
SplitWords(s) == SelectSeq(s, LAMBDA c : c # SP)
\* tokens.join(" ")
RECURSIVE JoinWords(_)
JoinWords(tokens) ==
    IF tokens = <<>> THEN <<>>
    ELSE IF Len(tokens) = 1 THEN tokens
    ELSE <<Head(tokens), SP>> \o JoinWords(Tail(tokens))

\* a || b on strings
OrElse(a, b) == IF a # <<>> THEN a ELSE b

\* the middle name taken from a full name without a comma, lines 477-479
MiddleNeverParsed(parts) == <<>>
MiddleOfParts(parts) ==
    IF Len(parts) > 2 THEN JoinWords(SubSeq(parts, 2, Len(parts) - 1)) ELSE <<>>

\* lines 463-485: the name parts kept, from the parts and the full name of the request
ParseName(lastName, firstName, middleName, fullName) ==
    LET provided == [lastName |-> trim(lastName), firstName |-> trim(firstName),
                     middleName |-> trim(middleName)]
        f == trim(fullName)
        pieces == SplitOn(f, COMMA)
        ln == trim(pieces[1])
        rest == SplitWords(trim(pieces[2]))
        parts == SplitWords(f)
    IN  IF (provided.lastName = <<>> \/ provided.firstName = <<>>) /\ f # <<>>
        THEN IF Includes(f, COMMA)
             THEN [lastName |-> OrElse(provided.lastName, ln),
                   firstName |-> OrElse(provided.firstName,
                                        IF rest # <<>> THEN <<rest[1]>> ELSE <<>>),
                   middleName |-> OrElse(provided.middleName,
                                         JoinWords(SubSeq(rest, 2, Len(rest))))]
             ELSE [lastName |-> OrElse(provided.lastName, <<parts[Len(parts)]>>),
                   firstName |-> OrElse(provided.firstName, <<parts[1]>>),
                   middleName |-> OrElse(provided.middleName, MiddleOfParts(parts))]
        ELSE provided

\* lines 487-491: composedFullName
ComposedFullName(fullName, parsed) ==
    OrElse(trim(fullName),
           IF parsed.lastName # <<>> /\ parsed.firstName # <<>>
           THEN parsed.lastName \o <<COMMA, SP>> \o parsed.firstName
                \o (IF parsed.middleName # <<>> THEN <<SP>> \o parsed.middleName ELSE <<>>)
           ELSE <<>>)

----------------------------------------------------------------------------
(* Account administration: POST /admin/create-admin *)

\* the response of an admin route, with what the request was and what the handler
\* came to (history)
AdminResponse(op, status, header, more) ==
    [op |-> op, status |-> status, header |-> header] @@ more

\* req.body of create-admin: the fields the handler names, NoField or <<>> when
\* absent, and in extra whatever other properties the request carries
CreateAdminBody(email, password, birthday, names, role, extra) ==
    [email |-> email, password |-> password, birthday |-> birthday,
     fullName |-> names.fullName, lastName |-> names.lastName,
     firstName |-> names.firstName, middleName |-> names.middleName,
     role |-> role, extra |-> extra]
NameFields(fullName, lastName, firstName, middleName) ==
    [fullName |-> fullName, lastName |-> lastName, firstName |-> firstName,
     middleName |-> middleName]

\* lines 494-499: the request's properties that are no reserved key; birthday is none
reservedKeys ==
    {"email", "password", "fullName", "lastName", "firstName", "middleName",
     "role", "isEmailVerified", "createdAt", "uid"}
additionalFieldsRaw(body) ==
    LET named == IF body.birthday # NoField THEN [birthday |-> body.birthday] ELSE <<>>
        all == named @@ body.extra
    IN  Restrict(all, (DOMAIN all) \ reservedKeys)

\* lines 501-503: the role kept for the role asked for
RoleInputs == {NoField, "admin", "employee", "ADMIN ", "superadmin"}
RequestedRoleAsAsked(role) == IF role = NoField THEN "employee" ELSE role
RequestedRole(role) ==
    LET requestedRoleRaw == ToLowerCase(Trim(role))
    IN  IF requestedRoleRaw \in {"admin", "employee"} THEN requestedRoleRaw ELSE "employee"

\* the same with the additional fields spread last
AdminProfileSpreadLast(body, emailLower, parsed) ==
    additionalFieldsRaw(body)
        @@ [lastName |-> parsed.lastName, firstName |-> parsed.firstName,
            middleName |-> parsed.middleName,
            fullName |-> ComposedFullName(body.fullName, parsed),
            email |-> emailLower, role |-> RequestedRole(body.role),
            isEmailVerified |-> TRUE, isActive |-> TRUE, createdAt |-> now]
\* lines 506-517: the profile written under the uid; what the handler sets itself
\* comes after the spread of the additional fields
AdminProfile(body, emailLower, parsed) ==
    [lastName |-> parsed.lastName, firstName |-> parsed.firstName,
     middleName |-> parsed.middleName,
     fullName |-> ComposedFullName(body.fullName, parsed),
     email |-> emailLower, role |-> RequestedRole(body.role),
     isEmailVerified |-> TRUE, isActive |-> TRUE, createdAt |-> now]
        @@ additionalFieldsRaw(body)

\* lines 437-458: createUser, or getUserByEmail and updateUser when the address is taken
CreateAdminIdentity(emailLower, passwordRaw) == EnsureAuthUserOutcome(emailLower, passwordRaw)

\* lines 519-569: what the mail step makes of the request once the profile is written;
\* a transport that is not configured answers 500 from inside the try block
CreateAdminMailAlwaysOk(mail) == 200
CreateAdminStatusAfterMail(mail) == IF mail = "NOT_CONFIGURED" THEN 500 ELSE 200

\* POST /admin/create-admin, lines 408-579, for the requests of a set
CreateAdminFrom(bodies) ==
    \E header \in AuthHeaders, body \in bodies, random \in RandomPasswords,
       mail \in MailOutcomes :
        LET denied == requireRole(header, "admin")
            emailLower == ToLowerCase(body.email)
            passwordRaw == PasswordRaw(body.password, body.birthday, random)
            out == CreateAdminIdentity(emailLower, passwordRaw)
            parsed == ParseName(body.lastName, body.firstName, body.middleName,
                                body.fullName)
            was == AccountStatus(auth, users, getUserByEmail(emailLower))
            Rejected(status) ==
                AdminResponse("create-admin", status, header, [written |-> FALSE])
            Threw ==
                AdminResponse("create-admin", 500, header,
                              [written |-> FALSE, asked |-> passwordRaw,
                               before |-> getUserByEmail(emailLower)])
            Respond(status, uid) ==
                AdminResponse("create-admin", status, header,
                              [body |-> body, uid |-> uid, written |-> TRUE,
                               mail |-> mail, was |-> was, asked |-> passwordRaw,
                               before |-> getUserByEmail(emailLower)])
        IN  /\ IF denied # 0
               THEN /\ lastResp' = Rejected(denied)
                    /\ UNCHANGED <<auth, users, nextUid>>
               ELSE IF emailLower = NoField
               THEN /\ lastResp' = Rejected(400)
                    /\ UNCHANGED <<auth, users, nextUid>>
               ELSE IF out.threw
               THEN /\ lastResp' = Threw
                    /\ UNCHANGED <<auth, users, nextUid>>
               ELSE /\ out.uid \in Uids
                    /\ auth' = out.auth
                    /\ nextUid' = out.nextUid
                    /\ users' = FirestoreSet(users, out.uid,
                                             AdminProfile(body, emailLower, parsed))
                    /\ lastResp' = Respond(CreateAdminStatusAfterMail(mail), out.uid)
            /\ validated' = NoValidation
            /\ UNCHANGED <<now, issued, otps, vaccineStock, mailer, arrived, hist>>

\* the requests create-admin is followed with among the other routes
SampleBodies ==
    {CreateAdminBody(email, StrongPassword, NoField,
                     NameFields(JuanDelaCruz, <<>>, <<>>, <<>>), role, <<>>) :
        email \in {"b@x.com", "A@x.com", NoField}, role \in {NoField, "admin"}}
CreateAdmin == CreateAdminFrom(SampleBodies) /\ UNCHANGED inflight

\* properties a request carries beside those the handler names: a field of the
\* caller's own, and system-managed attributes it tries to set
ExtraFields ==
    [unit |-> "lab", isActive |-> FALSE, role |-> "admin", uid |-> "u9", createdAt |-> 0,
     isEmailVerified |-> FALSE]
\* the requests create-admin is followed with on its own: every full name with some
\* of the parts given, every role asked for, every way to come to a password
GivenParts ==
    {NameFields(<<>>, l, f, m) :
        l \in {<<>>, <<"Reyes">>}, f \in {<<>>, <<SP, "Ana">>}, m \in {<<>>, <<"M">>}}
WideNames ==
    {NameFields(n, p.lastName, p.firstName, p.middleName) : n \in FullNames, p \in GivenParts}
WideBodies ==
    {CreateAdminBody("b@x.com", StrongPassword, NoField, names, NoField, <<>>) :
        names \in WideNames}
    \cup {CreateAdminBody(email, password, birthday,
                          NameFields(DelaCruzJuanMiguel, <<>>, <<>>, <<>>), role, extra) :
            email \in EnsureEmails \cup {NoField}, password \in PasswordInputs,
            birthday \in Birthdays, role \in RoleInputs,
            extra \in {<<>>, ExtraFields}}
\* create-admin answering a request that has arrived
CreateAdminArrived ==
    \E req \in BagToSet(inflight) :
        /\ req.op = "create-admin"
        /\ CreateAdminFrom({req.body})
        /\ inflight' = inflight (-) SetToBag({req})

----------------------------------------------------------------------------
(* Account administration: POST /admin/delete-admin and POST /admin/archive-admin *)

\* req.body.uid: a uid, or NoUid for a request without one
UidInputs == Uids \cup {NoUid}

\* admin.auth().deleteUser(uid)
AuthDeleteUser(a, uid) ==
    IF uid \in DOMAIN a
    THEN [code |-> "ok", auth |-> [u \in (DOMAIN a) \ {uid} |-> a[u]]]
    ELSE [code |-> "auth/user-not-found", auth |-> a]

\* doc.data()?.email of the profile under a uid, NoField when there is none
ProfileEmail(docs, uid) ==
    IF uid \in DOMAIN docs /\ "email" \in DOMAIN docs[uid] THEN docs[uid].email ELSE NoField

\* what the calls of delete-admin to Firebase Auth and to Firestore can come to:
\* deleteUser(uid) rejected although the user exists, and the delete of the profile
\* rejected
AuthOutcomes == {"OK", "BY_UID_FAILED"}
StoreOutcomes == {"OK", "DELETE_FAILED"}

\* lines 647-668: Firebase Auth after the delete by uid, or by the profile's email
\* when the delete by uid failed; every failure on the way is logged and swallowed
DeleteAdminAuthNoRecovery(uid, outcome) ==
    IF outcome = "BY_UID_FAILED" THEN auth ELSE AuthDeleteUser(auth, uid).auth
DeleteAdminAuthIn(uid, outcome) ==
    LET byUid == IF outcome = "BY_UID_FAILED"
                 THEN [code |-> "auth/internal-error", auth |-> auth]
                 ELSE AuthDeleteUser(auth, uid)
        userEmail == ProfileEmail(users, uid)
        byEmail == AuthDeleteUser(auth, getUserByEmail(userEmail))
    IN  IF byUid.code = "ok" THEN byUid.auth
        ELSE IF userEmail # NoField THEN byEmail.auth
        ELSE auth
DeleteAdminAuth(uid) == DeleteAdminAuthIn(uid, "OK")

\* lines 640-678: the answer of delete-admin and the stores after
DeleteAdminFailsOnUnknownUid(uid) ==
    IF uid \in DOMAIN auth
    THEN [status |-> 200, auth |-> DeleteAdminAuth(uid), users |-> FirestoreDelete(users, uid)]
    ELSE [status |-> 500, auth |-> auth, users |-> users]
DeleteAdminOutcome(uid) ==
    [status |-> 200, auth |-> DeleteAdminAuth(uid), users |-> FirestoreDelete(users, uid)]

\* POST /admin/delete-admin, lines 634-679, with the outcomes of two sets for its
\* calls to Firebase Auth and to Firestore
DeleteAdminFrom(authOutcomes, storeOutcomes) ==
    \E header \in AuthHeaders, uid \in UidInputs, authOutcome \in authOutcomes,
       store \in storeOutcomes :
        LET denied == requireRole(header, "admin")
            reliable == DeleteAdminOutcome(uid)
            out == [status |-> reliable.status,
                    auth |-> IF authOutcome = "OK" THEN reliable.auth
                             ELSE DeleteAdminAuthIn(uid, authOutcome),
                    \* line 671: .delete().catch(() => null)
                    users |-> IF store = "OK" THEN reliable.users ELSE users]
            repeat == /\ lastResp.op = "delete-admin"
                      /\ lastResp.status = 200
                      /\ lastResp.uid = uid
            Respond(status, changed) ==
                AdminResponse("delete-admin", status, header,
                              [uid |-> uid, was |-> AccountStatus(auth, users, uid),
                               hadProfile |-> uid \in DOMAIN users,
                               repeat |-> repeat, changed |-> changed,
                               authOutcome |-> authOutcome, store |-> store,
                               email |-> ProfileEmail(users, uid),
                               found |-> getUserByEmail(ProfileEmail(users, uid)) # NoUid])
        IN  /\ IF denied # 0
               THEN /\ lastResp' = AdminResponse("delete-admin", denied, header, <<>>)
                    /\ UNCHANGED <<auth, users>>
               ELSE IF uid = NoUid
               THEN /\ lastResp' = AdminResponse("delete-admin", 400, header, <<>>)
                    /\ UNCHANGED <<auth, users>>
               ELSE /\ auth' = out.auth
                    /\ users' = out.users
                    /\ lastResp' = Respond(out.status, out.auth # auth \/ out.users # users)
            /\ validated' = NoValidation
            /\ UNCHANGED <<now, issued, otps, nextUid, vaccineStock, inflight, mailer,
                           arrived, hist>>

\* delete-admin with Firebase Auth and Firestore doing what they are asked
DeleteAdmin == DeleteAdminFrom({"OK"}, {"OK"})

\* req.body.disable: absent, or a boolean
NoFlag == [given |-> FALSE]
Flag(b) == [given |-> TRUE, value |-> b]
DisableInputs == {NoFlag, Flag(TRUE), Flag(FALSE)}

\* admin.auth().updateUser(uid, { disabled })
AuthSetDisabled(a, uid, disabled) ==
    IF uid \in DOMAIN a
    THEN [code |-> "ok", auth |-> [a EXCEPT ![uid].disabled = disabled]]
    ELSE [code |-> "auth/user-not-found", auth |-> a]

\* lines 693-713: Firebase Auth after the update by uid, or by the profile's email
\* when the uid is unknown; every failure on the way is logged and swallowed
ArchiveAdminAuth(uid, disable) ==
    LET byUid == AuthSetDisabled(auth, uid, disable)
        maybeEmail == ProfileEmail(users, uid)
        byEmail == AuthSetDisabled(auth, getUserByEmail(maybeEmail), disable)
    IN  IF byUid.code = "ok" THEN byUid.auth
        ELSE IF maybeEmail # NoField THEN byEmail.auth
        ELSE auth

\* a document of "vaccineStock": who created it, and whether and by whom it is archived
StockRecord(email) == [createdBy |-> [email |-> email], isArchived |-> FALSE]
ArchivedStockRecord(email, by) ==
    [createdBy |-> [email |-> email], isArchived |-> TRUE, archivedAt |-> 0, archivedBy |-> by]

\* lines 724-726: where('createdBy.email', '==', userEmail)
StockMatching(stock, userEmail) ==
    {id \in DOMAIN stock : stock[id].createdBy.email = userEmail}

\* lines 728-751: the batch built for the documents found.  Archiving reads
\* requesterEmail, which is declared nowhere: the first document raises a
\* ReferenceError, inside the try block.  Nothing is built for no document.
NoBatch == [writes |-> {}]
CascadeBatch(ids, disable) ==
    IF ids = {} THEN NoBatch
    ELSE IF disable THEN Thrown
    ELSE [writes |-> ids]

\* lines 743-748: update(docRef, { isArchived: false, archivedAt: delete(), archivedBy: delete() })
UnarchiveKeepsStamps(doc) == [doc EXCEPT !.isArchived = FALSE]
Unarchived(doc) ==
    [isArchived |-> FALSE] @@ Restrict(doc, (DOMAIN doc) \ {"isArchived", "archivedAt", "archivedBy"})

\* line 753: batch.commit() applies every write of the batch, or none
CommitFirstWriteOnly(stock, batch) ==
    LET first == IF batch.writes = {} THEN {}
                 ELSE {CHOOSE id \in batch.writes : \A other \in batch.writes : id <= other}
    IN  [id \in DOMAIN stock |-> IF id \in first THEN Unarchived(stock[id]) ELSE stock[id]]
BatchCommit(stock, batch) ==
    [id \in DOMAIN stock |-> IF id \in batch.writes THEN Unarchived(stock[id]) ELSE stock[id]]

\* what the inventory store does with the query and with the batch
InventoryOutcomes == {"OK", "QUERY_FAILED", "COMMIT_FAILED"}

\* lines 722-760: "vaccineStock" after the cascade for the profile's email; whatever
\* fails in it is caught and dropped
CascadeOutcomeUncaught(userEmail, disable, inventory) ==
    LET ids == IF userEmail = NoField \/ inventory = "QUERY_FAILED" THEN {}
               ELSE StockMatching(vaccineStock, userEmail)
        batch == CascadeBatch(ids, disable)
    IN  IF batch = Thrown \/ batch = NoBatch \/ inventory = "COMMIT_FAILED"
        THEN [committed |-> FALSE, ids |-> ids, stock |-> vaccineStock,
              threw |-> batch = Thrown \/ inventory # "OK"]
        ELSE [committed |-> TRUE, ids |-> ids, stock |-> BatchCommit(vaccineStock, batch),
              threw |-> inventory # "OK"]
CascadeOutcome(userEmail, disable, inventory) ==
    LET ids == IF userEmail = NoField \/ inventory = "QUERY_FAILED" THEN {}
               ELSE StockMatching(vaccineStock, userEmail)
        batch == CascadeBatch(ids, disable)
    IN  IF batch = Thrown \/ batch = NoBatch \/ inventory = "COMMIT_FAILED"
        THEN [committed |-> FALSE, ids |-> ids, stock |-> vaccineStock, threw |-> FALSE]
        ELSE [committed |-> TRUE, ids |-> ids, stock |-> BatchCommit(vaccineStock, batch),
              threw |-> FALSE]

ArchiveResponse(status, header, uid, disable, userEmail, inventory, cascade) ==
    AdminResponse("archive-admin", status, header,
                  [uid |-> uid, disable |-> disable, userEmail |-> userEmail,
                   inventory |-> inventory, committed |-> cascade.committed,
                   ids |-> cascade.ids,
                   touched |-> {id \in cascade.ids : cascade.stock[id] # vaccineStock[id]}])

\* POST /admin/archive-admin, lines 682-767, for the inventory store behaving in
\* one of some ways
ArchiveAdminFrom(inventories) ==
    \E header \in AuthHeaders, uid \in UidInputs, disable \in DisableInputs,
       inventory \in inventories :
        LET denied == requireRole(header, "admin")
            userEmail == ProfileEmail(users, uid)
            cascade == CascadeOutcome(userEmail, disable.value, inventory)
        IN  /\ IF denied # 0
               THEN /\ lastResp' = AdminResponse("archive-admin", denied, header, <<>>)
                    /\ UNCHANGED <<auth, users, vaccineStock>>
               ELSE IF uid = NoUid \/ ~disable.given
               THEN /\ lastResp' = AdminResponse("archive-admin", 400, header, <<>>)
                    /\ UNCHANGED <<auth, users, vaccineStock>>
               ELSE /\ auth' = ArchiveAdminAuth(uid, disable.value)
                    /\ users' = FirestoreSetMerge(users, uid, [isActive |-> ~disable.value])
                    /\ vaccineStock' = cascade.stock
                    \* the outer catch, lines 763-766, for what the cascade throws
                    /\ lastResp' = ArchiveResponse(IF cascade.threw THEN 500 ELSE 200,
                                                   header, uid, disable, userEmail,
                                                   inventory, cascade)
            /\ validated' = NoValidation
            /\ UNCHANGED <<now, issued, otps, nextUid, inflight, mailer, arrived, hist>>

ArchiveAdmin == ArchiveAdminFrom(InventoryOutcomes)

(* archive-admin step by step: the handler waits for the query and for the commit,
   and the steps of several requests interleave. *)

\* lines 682-720: the gate, the identity, the profile; the query is awaited next
ArchiveBegin ==
    \E header \in AuthHeaders, uid \in UidInputs, disable \in DisableInputs :
        LET denied == requireRole(header, "admin")
            userEmail == ProfileEmail(users, uid)
        IN  /\ CanArrive
            /\ arrived' = arrived + 1
            /\ IF denied # 0
               THEN /\ lastResp' = AdminResponse("archive-admin", denied, header, <<>>)
                    /\ UNCHANGED <<auth, users, inflight>>
               ELSE IF uid = NoUid \/ ~disable.given
               THEN /\ lastResp' = AdminResponse("archive-admin", 400, header, <<>>)
                    /\ UNCHANGED <<auth, users, inflight>>
               ELSE /\ auth' = ArchiveAdminAuth(uid, disable.value)
                    /\ users' = FirestoreSetMerge(users, uid, [isActive |-> ~disable.value])
                    /\ IF userEmail = NoField
                       THEN /\ lastResp' = ArchiveResponse(200, header, uid, disable, userEmail,
                                                "OK", CascadeOutcome(userEmail, disable.value, "OK"))
                            /\ UNCHANGED inflight
                       ELSE /\ lastResp' = NoResponse
                            /\ Arrive([op |-> "archive-admin", pc |-> "query",
                                       header |-> header, uid |-> uid, disable |-> disable,
                                       userEmail |-> userEmail, ids |-> {}])
            /\ validated' = NoValidation
            /\ UNCHANGED <<now, issued, otps, nextUid, vaccineStock, mailer, hist>>

\* lines 724-751: the query answers, the batch is built
ArchiveQuery ==
    \E req \in BagToSet(inflight), inventory \in {"OK", "QUERY_FAILED"} :
        LET now_ == CascadeOutcome(req.userEmail, req.disable.value, inventory)
            batch == CascadeBatch(now_.ids, req.disable.value)
        IN  /\ req.op = "archive-admin" /\ req.pc = "query"
            /\ IF batch = Thrown \/ batch = NoBatch
               THEN /\ lastResp' = ArchiveResponse(200, req.header, req.uid, req.disable,
                                                   req.userEmail, inventory,
                                                   [now_ EXCEPT !.committed = FALSE,
                                                                !.stock = vaccineStock])
                    /\ Leave(req)
               ELSE /\ lastResp' = NoResponse
                    /\ Advance(req, [req EXCEPT !.pc = "commit", !.ids = batch.writes])
            /\ validated' = NoValidation
            /\ UNCHANGED <<now, issued, storeVars, mailer, arrived, hist>>

\* lines 753-762: the commit answers, then the response is sent
ArchiveCommit ==
    \E req \in BagToSet(inflight), inventory \in {"OK", "COMMIT_FAILED"} :
        LET after == IF inventory = "OK" THEN BatchCommit(vaccineStock, [writes |-> req.ids])
                     ELSE vaccineStock
        IN  /\ req.op = "archive-admin" /\ req.pc = "commit"
            /\ vaccineStock' = after
            /\ lastResp' = ArchiveResponse(200, req.header, req.uid, req.disable,
                                           req.userEmail, inventory,
                                           [committed |-> inventory = "OK", ids |-> req.ids,
                                            stock |-> after, threw |-> FALSE])
            /\ Leave(req)
            /\ validated' = NoValidation
            /\ UNCHANGED <<now, issued, otps, auth, users, nextUid, mailer, arrived, hist>>

----------------------------------------------------------------------------
(* POST /api/force-password-change *)

\* lines 286-300: both fields required, then getUserByEmail(email) and
\* updateUser(userRecord.uid, { password: otp }); any rejection answers 500.
\* snap is the passcode document held for the email when the request is handled
\* (history: the handler does not read it)
ForcePasswordChange ==
    \E email \in Emails \cup {NoField}, otp \in OtpInputs :
        /\ validated' = NoValidation
        /\ IF email = NoField \/ otp = NoField
           THEN /\ lastResp' = Required("force-password-change")
                /\ UNCHANGED auth
           ELSE LET uid == getUserByEmail(email)
                    updated == AuthUpdateUserPasswordOnly(auth, uid, otp)
                    snap == FirestoreGet(otps, encodeURIComponent(email))
                IN  /\ auth' = updated.auth
                    /\ lastResp' = [op |-> "force-password-change", email |-> email,
                                    otp |-> otp,
                                    status |-> IF updated.code = "ok" THEN 200 ELSE 500,
                                    updated |-> updated.code = "ok", uid |-> uid,
                                    snap |-> snap, at |-> now]
        /\ UNCHANGED <<now, issued, otps, users, nextUid, inflight, mailer, vaccineStock,
                       arrived, hist>>

----------------------------------------------------------------------------
(* create-admin and ensure-auth-user step by step: the handler waits for createUser,
   getUserByEmail and updateUser, and the steps of several requests interleave. *)

ReconcileOps == {"ensure-auth-user", "create-admin"}
\* the same address in two letter cases, and two passwords Firebase Auth accepts
ReconcileEmails == {"b@x.com", "B@x.com"}
ReconcilePasswords == {StrongPassword, "01312000"}

\* lines 446 and 615: err?.code === 'auth/email-already-exists'
EmailAlreadyExistsNeverRecovered(code) == FALSE
EmailAlreadyExists(code) == code = "auth/email-already-exists"

\* what the previous response tells, when it answered for the same address (history)
PriorReconcile(emailLower) ==
    IF lastResp.op \in ReconcileOps /\ "email" \in DOMAIN lastResp
       /\ lastResp.email = emailLower
    THEN [any |-> TRUE, ok |-> lastResp.ok, uid |-> lastResp.uid]
    ELSE [any |-> FALSE]
ReconcileResponse(req, status, ok, uid) ==
    [op |-> req.op, status |-> status, ok |-> ok, email |-> req.email, uid |-> uid,
     recovered |-> req.recovered, concurrent |-> req.concurrent,
     prior |-> PriorReconcile(req.email)]

\* lines 408-445 and 582-614: the checks, the password, then createUser
ReconcileCreateUser ==
    \E op \in ReconcileOps, header \in {NoHeader, IdTokenHeader(1)},
       email \in ReconcileEmails, password \in ReconcilePasswords :
        LET denied == requireRole(header, "admin")
            emailLower == ToLowerCase(email)
            created == AuthCreateUser(auth, nextUid, emailLower, password)
            req == [op |-> op, pc |-> "respond", email |-> emailLower,
                    password |-> password, uid |-> created.uid, recovered |-> FALSE,
                    concurrent |-> \E other \in BagToSet(inflight) :
                                      other.op \in ReconcileOps /\ other.email = emailLower]
        IN  /\ CanArrive
            /\ arrived' = arrived + 1
            /\ IF denied # 0
               THEN /\ lastResp' = [op |-> op, status |-> denied, ok |-> FALSE]
                    /\ UNCHANGED <<auth, nextUid, inflight>>
               ELSE IF created.code = "ok"
               THEN /\ created.uid \in Uids
                    /\ auth' = created.auth
                    /\ nextUid' = nextUid + 1
                    /\ Arrive(req)
                    /\ lastResp' = NoResponse
               ELSE IF EmailAlreadyExists(created.code)
               THEN /\ Arrive([req EXCEPT !.pc = "getUserByEmail", !.recovered = TRUE])
                    /\ lastResp' = NoResponse
                    /\ UNCHANGED <<auth, nextUid>>
               ELSE /\ lastResp' = ReconcileResponse(req, 500, FALSE, NoUid)
                    /\ UNCHANGED <<auth, nextUid, inflight>>
            /\ validated' = NoValidation
            /\ UNCHANGED <<now, issued, otps, users, vaccineStock, mailer, hist>>

\* lines 447-448 and 616-617: getUserByEmail(emailLower)
ReconcileGetUserByEmail ==
    \E req \in BagToSet(inflight) :
        LET existing == getUserByEmail(req.email)
        IN  /\ req.op \in ReconcileOps /\ req.pc = "getUserByEmail"
            /\ IF existing = NoUid
               THEN /\ lastResp' = ReconcileResponse(req, 500, FALSE, NoUid)
                    /\ Leave(req)
               ELSE /\ lastResp' = NoResponse
                    /\ Advance(req, [req EXCEPT !.pc = "updateUser", !.uid = existing])
            /\ validated' = NoValidation
            /\ UNCHANGED <<now, issued, storeVars, mailer, arrived, hist>>

\* lines 449-453 and 618: updateUser(uid, { password, emailVerified: true, disabled: false })
ReconcileUpdateUser ==
    \E req \in BagToSet(inflight) :
        LET updated == AuthUpdateUser(auth, req.uid, req.password)
        IN  /\ req.op \in ReconcileOps /\ req.pc = "updateUser"
            /\ IF updated.code = "ok"
               THEN /\ auth' = updated.auth
                    /\ lastResp' = NoResponse
                    /\ Advance(req, [req EXCEPT !.pc = "respond"])
               ELSE /\ lastResp' = ReconcileResponse(req, 500, FALSE, NoUid)
                    /\ Leave(req)
                    /\ UNCHANGED auth
            /\ validated' = NoValidation
            /\ UNCHANGED <<now, issued, otps, users, nextUid, vaccineStock, mailer, arrived,
                           hist>>

\* lines 461-571 and 625-626: getUser(uid), for create-admin the profile and the
\* mail, then the response
ReconcileRespond ==
    \E req \in BagToSet(inflight), mail \in MailOutcomes :
        LET body == CreateAdminBody(req.email, req.password, NoField,
                                    NameFields(JuanDelaCruz, <<>>, <<>>, <<>>), NoField, <<>>)
            parsed == ParseName(body.lastName, body.firstName, body.middleName,
                                body.fullName)
        IN  /\ req.op \in ReconcileOps /\ req.pc = "respond"
            /\ IF req.uid \notin DOMAIN auth
               THEN /\ lastResp' = ReconcileResponse(req, 500, FALSE, NoUid)
                    /\ UNCHANGED users
               ELSE IF req.op = "create-admin"
               THEN /\ users' = FirestoreSet(users, req.uid,
                                             AdminProfile(body, req.email, parsed))
                    /\ lastResp' = ReconcileResponse(req, CreateAdminStatusAfterMail(mail),
                                                     TRUE, req.uid)
               ELSE /\ lastResp' = ReconcileResponse(req, 200, TRUE, req.uid)
                    /\ UNCHANGED users
            /\ Leave(req)
            /\ validated' = NoValidation
            /\ UNCHANGED <<now, issued, otps, auth, nextUid, vaccineStock, mailer, arrived,
                           hist>>

----------------------------------------------------------------------------
(* Email change: POST /employee/request-email-change, GET /employee/verify-email-change *)

EMAIL_CHANGE_TTL == 2       \* 48 * 60 * 60 * 1000 ms, in clock ticks
\* req.body.newEmail
NewEmails == {"b@x.com", "B@x.com"}

\* admin.auth().updateUser(uid, { email, emailVerified: true }): Firebase Auth keeps
\* the address in lower case and refuses one that another user has
AuthUpdateEmail(a, uid, email) ==
    IF uid \notin DOMAIN a THEN [code |-> "auth/user-not-found", auth |-> a]
    ELSE IF \E u \in (DOMAIN a) \ {uid} : a[u].email = ToLowerCase(email)
    THEN [code |-> "auth/email-already-exists", auth |-> a]
    ELSE [code |-> "ok",
          auth |-> [a EXCEPT ![uid].email = ToLowerCase(email), ![uid].emailVerified = TRUE]]

\* POST /employee/request-email-change, lines 173-225: the link is mailed to the new
\* address, so the token is handed out when the mail is sent
RequestEmailChange ==
    \E header \in AuthHeaders, newEmail \in NewEmails \cup {NoField}, mail \in MailOutcomes :
        LET payload == JsObject([newEmail |-> newEmail], [uid |-> header.uid])
            changeToken == createEmailChangeToken(payload, EMAIL_CHANGE_SECRET,
                                                  EMAIL_CHANGE_TTL, now)
            status == IF ~header.bearer THEN 401
                      ELSE IF ~header.verifies THEN 500
                      ELSE IF newEmail = NoField THEN 400
                      ELSE IF mail = "SENT" THEN 200
                      ELSE 500
        IN  /\ issued' = IF status = 200
                         THEN [kind |-> "token", token |-> changeToken, payload |-> payload,
                               secret |-> EMAIL_CHANGE_SECRET, issuedAt |-> now,
                               ttl |-> EMAIL_CHANGE_TTL]
                         ELSE issued
            /\ lastResp' = AdminResponse("request-email-change", status, header,
                                         [newEmail |-> newEmail, mail |-> mail])
            /\ validated' = NoValidation
            /\ UNCHANGED <<now, storeVars, inflight, mailer, arrived, hist>>

\* lines 236-262: the answer for what updateUser came to
VerifyEmailChangeStatus(code) ==
    IF code = "ok" THEN 200 ELSE IF code = "auth/email-already-exists" THEN 409 ELSE 500

\* lines 237-264: the catch of updateUser returns, so users/{uid} is set only when
\* updateUser resolved
UsersAfterEmailChangeNoReturn(code, uid, newEmail) ==
    FirestoreSetMerge(users, uid,
                      [email |-> newEmail, isEmailVerified |-> TRUE, updatedAt |-> now])
UsersAfterEmailChange(code, uid, newEmail) ==
    IF code = "ok"
    THEN FirestoreSetMerge(users, uid,
                           [email |-> newEmail, isEmailVerified |-> TRUE, updatedAt |-> now])
    ELSE users

\* GET /employee/verify-email-change, lines 228-282, for the link that was mailed or
\* for a query string made up
VerifyEmailChange ==
    \E token \in {MissingToken, ObjectToken}
                    \cup (IF issued = NoToken THEN {} ELSE {issued.token}) :
        LET data == verifyEmailChangeToken(token, EMAIL_CHANGE_SECRET, now)
            uid == data.num.uid
            newEmail == data.str.newEmail
            updated == AuthUpdateEmail(auth, uid, newEmail)
            Respond(status, more) ==
                AdminResponse("verify-email-change", status, NoHeader, [token |-> token] @@ more)
        IN  /\ IF data = Thrown
               THEN /\ lastResp' = Respond(500, <<>>)
                    /\ UNCHANGED <<auth, users>>
               ELSE IF data = Null
               THEN /\ lastResp' = Respond(400, <<>>)
                    /\ UNCHANGED <<auth, users>>
               ELSE /\ auth' = updated.auth
                    /\ users' = UsersAfterEmailChange(updated.code, uid, newEmail)
                    /\ lastResp' = Respond(VerifyEmailChangeStatus(updated.code),
                                           [uid |-> uid, newEmail |-> newEmail,
                                            code |-> updated.code])
            /\ validated' = NoValidation
            /\ UNCHANGED <<now, issued, otps, nextUid, vaccineStock, inflight, mailer,
                           arrived, hist>>

----------------------------------------------------------------------------
(* Stores and requests at start-up *)


InitStores ==
    /\ otps = <<>>
    /\ auth = <<>>
    /\ users = <<>>
    /\ vaccineStock = <<>>
    /\ nextUid = 1
    /\ inflight = EmptyBag
    /\ lastResp = NoResponse
    /\ mailer = TRUE
    /\ arrived = 0
    /\ hist = [k \in OtpKeys |-> NoHistory]

\* the passcode handlers start with or without an account for the address, and with
\* or without a configured mail transport
InitOtp ==
    /\ now = 1
    /\ issued = NoToken
    /\ validated = NoValidation
    /\ otps = <<>>
    /\ \/ auth = <<>> /\ nextUid = 1
       \/ auth = (1 :> AuthUser("a@x.com", "initial")) /\ nextUid = 2
    /\ users = <<>>
    /\ vaccineStock = <<>>
    /\ inflight = EmptyBag
    /\ lastResp = NoResponse
    /\ mailer \in BOOLEAN
    /\ arrived = 0
    /\ hist = [k \in OtpKeys |-> NoHistory]

NextOtp == TickOtp \/ SendOtp \/ VerifyOtp

SpecOtp == InitOtp /\ [][NextOtp]_vars

\* the passcode handlers with a credential sync that can fail
NextIssue == TickOtp \/ SendOtpFrom(SyncOutcomes) \/ VerifyOtp

SpecIssue == InitOtp /\ [][NextIssue]_vars

NextOtpConcurrent ==
    \/ TickOtp
    \/ SendOtpLookup
    \/ SendOtpUpdateUser
    \/ SendOtpStore
    \/ VerifyOtpRead
    \/ VerifyOtpFinish

\* concurrent requests are followed with the mail transport configured
InitOtpConcurrent == InitOtp /\ mailer

SpecOtpConcurrent == InitOtpConcurrent /\ [][NextOtpConcurrent]_vars

InitToken ==
    /\ now = 1
    /\ issued = NoToken
    /\ validated = NoValidation
    /\ InitStores

NextToken == Tick \/ IssueToken \/ ValidateIssued \/ ValidateForged

SpecToken == InitToken /\ [][NextToken]_vars

\* reconciliation starts on an empty project: the tool creates the first admin
InitEnsure ==
    /\ now = 1
    /\ issued = NoToken
    /\ validated = NoValidation
    /\ InitStores

NextEnsure == EnsureUserTool \/ EnsureAuthUser

SpecEnsure == InitEnsure /\ [][NextEnsure]_vars

\* the project the admin routes run on: an admin (uid 1), and with or without a
\* second account whose profile carries some other role or none, or whose identity
\* has been removed in the Firebase console while the profile stayed
OtherRoles == {"employee", "user", "superadmin", NoField}
Profile(email, role) ==
    [email |-> email, isEmailVerified |-> TRUE, isActive |-> TRUE, createdAt |-> 1]
        @@ (IF role = NoField THEN <<>> ELSE [role |-> role])
InitAccounts ==
    \/ /\ auth = (1 :> AuthUser("a@x.com", "initial"))
       /\ users = (1 :> Profile("a@x.com", "admin"))
       /\ nextUid = 2
    \/ \E role \in OtherRoles :
        /\ MaxUids >= 2
        /\ auth = (1 :> AuthUser("a@x.com", "initial")) @@ (2 :> AuthUser("b@x.com", "initial"))
        /\ users = (1 :> Profile("a@x.com", "admin")) @@ (2 :> Profile("b@x.com", role))
        /\ nextUid = 3
    \/ /\ MaxUids >= 2
       /\ auth = (1 :> AuthUser("a@x.com", "initial"))
       /\ users = (1 :> Profile("a@x.com", "admin")) @@ (2 :> Profile("b@x.com", "employee"))
       /\ nextUid = 3

InitCreateAdmin ==
    /\ now = 1
    /\ issued = NoToken
    /\ validated = NoValidation
    /\ otps = <<>>
    /\ InitAccounts
    /\ vaccineStock = <<>>
    /\ \E body \in WideBodies : inflight = SetToBag({[op |-> "create-admin", body |-> body]})
    /\ lastResp = NoResponse
    /\ mailer \in BOOLEAN
    /\ arrived = 0
    /\ hist = [k \in OtpKeys |-> NoHistory]

NextCreateAdmin == CreateAdminArrived

SpecCreateAdmin == InitCreateAdmin /\ [][NextCreateAdmin]_vars

\* the inventory at start-up: one document created by the admin and two by the
\* second address, none archived, all archived, or one of them
InitStock ==
    \/ vaccineStock = (1 :> StockRecord("a@x.com")) @@ (2 :> StockRecord("b@x.com"))
                        @@ (3 :> StockRecord("b@x.com"))
    \/ vaccineStock = (1 :> ArchivedStockRecord("a@x.com", "a@x.com"))
                        @@ (2 :> ArchivedStockRecord("b@x.com", "a@x.com"))
                        @@ (3 :> ArchivedStockRecord("b@x.com", "a@x.com"))
    \/ vaccineStock = (1 :> StockRecord("a@x.com"))
                        @@ (2 :> ArchivedStockRecord("b@x.com", "a@x.com"))
                        @@ (3 :> StockRecord("b@x.com"))

InitAdmin ==
    /\ now = 1
    /\ issued = NoToken
    /\ validated = NoValidation
    /\ otps = <<>>
    /\ InitAccounts
    /\ vaccineStock = <<>>
    /\ inflight = EmptyBag
    /\ lastResp = NoResponse
    /\ mailer = TRUE
    /\ arrived = 0
    /\ hist = [k \in OtpKeys |-> NoHistory]

\* the admin routes, one request at a time, the inventory left aside
NextAdmin ==
    \/ CreateAdmin
    \/ DeleteAdmin
    \/ ArchiveAdminFrom({"OK"})
    \/ EnsureAuthUserFrom({StrongPassword}, {NoField})

SpecAdmin == InitAdmin /\ [][NextAdmin]_vars

\* concurrent send-otp requests for one address, written one way
NextIssueConcurrent ==
    \/ TickOtp
    \/ SendOtpLookupFrom({"a@x.com"})
    \/ SendOtpUpdateUser
    \/ SendOtpStore

SpecIssueConcurrent == InitOtpConcurrent /\ [][NextIssueConcurrent]_vars

\* the passcode routes and force-password-change
NextForce == TickOtp \/ SendOtp \/ VerifyOtp \/ ForcePasswordChange

SpecForce == InitOtp /\ [][NextForce]_vars

\* create-admin and ensure-auth-user for one address, concurrent requests
NextReconcile ==
    \/ ReconcileCreateUser
    \/ ReconcileGetUserByEmail
    \/ ReconcileUpdateUser
    \/ ReconcileRespond

SpecReconcile == InitAdmin /\ [][NextReconcile]_vars

\* ensure-auth-user with one request arrived
InitEnsureArrived ==
    /\ now = 1
    /\ issued = NoToken
    /\ validated = NoValidation
    /\ otps = <<>>
    /\ InitAccounts
    /\ vaccineStock = <<>>
    /\ \E req \in EnsureRequests : inflight = SetToBag({req})
    /\ lastResp = NoResponse
    /\ mailer = TRUE
    /\ arrived = 1
    /\ hist = [k \in OtpKeys |-> NoHistory]

NextEnsureArrived == EnsureAuthUserArrived

SpecEnsureArrived == InitEnsureArrived /\ [][NextEnsureArrived]_vars

\* the three ways to reconcile an identity
ResetBodies ==
    {CreateAdminBody(email, password, birthday,
                     NameFields(JuanDelaCruz, <<>>, <<>>, <<>>), NoField, <<>>) :
        email \in {"b@x.com", "A@x.com"}, password \in PasswordInputs,
        birthday \in {NoField, "2000-01-31"}}
\* an administrator and a second account, which archive-admin may have disabled
InitReset ==
    /\ now = 1
    /\ issued = NoToken
    /\ validated = NoValidation
    /\ otps = <<>>
    /\ \E disabled \in BOOLEAN :
        /\ auth = (1 :> AuthUser("a@x.com", "initial"))
                    @@ (2 :> [AuthUser("b@x.com", "initial") EXCEPT !.disabled = disabled])
        /\ users = (1 :> Profile("a@x.com", "admin"))
                    @@ (2 :> FirestoreSetMerge((2 :> Profile("b@x.com", "employee")), 2,
                                               [isActive |-> ~disabled])[2])
    /\ nextUid = 3
    /\ vaccineStock = <<>>
    /\ inflight = EmptyBag
    /\ lastResp = NoResponse
    /\ mailer = TRUE
    /\ arrived = 0
    /\ hist = [k \in OtpKeys |-> NoHistory]

NextReset ==
    \/ EnsureAuthUserFrom(PasswordInputs, {"2000-01-31"})
    \/ EnsureUserToolFrom({NoField})
    \/ CreateAdminFrom(ResetBodies) /\ UNCHANGED inflight

SpecReset == InitReset /\ [][NextReset]_vars

\* delete-admin with calls that fail, among the routes that create accounts
NextDelete ==
    \/ CreateAdmin
    \/ DeleteAdminFrom(AuthOutcomes, StoreOutcomes)
    \/ EnsureAuthUserFrom({StrongPassword}, {NoField})

SpecDelete == InitAdmin /\ [][NextDelete]_vars

\* the routes that write the email of a profile, one request at a time
NextEmailChange ==
    \/ CreateAdmin
    \/ ArchiveAdminFrom({"OK"})
    \/ RequestEmailChange
    \/ VerifyEmailChange

SpecEmailChange == InitAdmin /\ [][NextEmailChange]_vars

\* archive-admin with its cascade over the inventory, requests interleaved
InitArchive ==
    /\ now = 1
    /\ issued = NoToken
    /\ validated = NoValidation
    /\ otps = <<>>
    /\ InitAccounts
    /\ InitStock
    /\ inflight = EmptyBag
    /\ lastResp = NoResponse
    /\ mailer = TRUE
    /\ arrived = 0
    /\ hist = [k \in OtpKeys |-> NoHistory]

NextArchive == ArchiveBegin \/ ArchiveQuery \/ ArchiveCommit

SpecArchive == InitArchive /\ [][NextArchive]_vars

\* archive-admin with its cascade, one request at a time
NextArchiveAtomic == ArchiveAdmin

SpecArchiveAtomic == InitArchive /\ [][NextArchiveAtomic]_vars

----------------------------------------------------------------------------
(* Token codec: properties *)

PayloadKeys == {"uid", "newEmail", "iat", "exp"}

\* the token just validated is the issued one, under the secret it was issued with
ValidatedOwnToken ==
    /\ validated.kind = "issued"
    /\ validated.secret = validated.of.secret
ValidatedAtIssue ==
    /\ ValidatedOwnToken
    /\ validated.at = validated.of.issuedAt
    /\ validated.of.ttl >= 0

C2_NullExactlyAfterExpiry ==
    ValidatedOwnToken =>
        /\ validated.result # Thrown
        /\ (validated.result = Null)
              <=> (validated.at > validated.of.issuedAt + validated.of.ttl)

\* a token with ttl 1 is refused one tick after its expiry
C2_Witness ==
    /\ ValidatedOwnToken
    /\ validated.of.ttl = 1
    /\ validated.at = validated.of.issuedAt + 2
    /\ validated.result = Null

\* a token is still accepted at the tick of its expiry
C2_WitnessAtExpiry ==
    /\ ValidatedOwnToken
    /\ validated.of.ttl = 1
    /\ validated.at = validated.of.issuedAt + 1
    /\ validated.result # Null

\* C3: a token issued under one secret validates to null under any other secret,
\* whatever its payload and however far it is from expiry.
C3_WrongSecretIsNull ==
    (validated.kind = "issued" /\ validated.secret # validated.of.secret)
        => validated.result = Null

\* an unexpired token has been validated under the other secret
C3_Witness ==
    /\ validated.kind = "issued"
    /\ validated.secret # validated.of.secret
    /\ validated.at < validated.of.issuedAt + validated.of.ttl
    /\ validated.result = Null

\* C4 as stated: verifyEmailChangeToken never throws, and whatever is not the
\* issued token, under its secret and before its expiry, gives null.
C4_FailsClosedNeverThrows ==
    /\ validated.kind # "none" => validated.result # Thrown
    /\ (validated.kind # "none" /\ validated.result # Null) =>
          /\ ValidatedOwnToken
          /\ validated.at <= validated.of.issuedAt + validated.of.ttl

----------------------------------------------------------------------------
(* Passcodes: properties *)

Answered(op) == lastResp.op = op /\ lastResp.result # "REQUIRED"

\* the verify-otp just answered was sent right after two issuances in succession for
\* its key, with the code of the first of them
VerifiedFirstOfTwo ==
    /\ Answered("verify-otp")
    /\ lastResp.seen.prev # NoCode
    /\ lastResp.otp = lastResp.seen.prev

\* C5 as stated: after two issuances in succession for one email, verifying the
\* code of the first answers MISMATCH.
C5_FirstCodeMismatches ==
    VerifiedFirstOfTwo => lastResp.result = "MISMATCH"

\* C5 (amended): after two issuances in succession for one email, verifying the
\* code of the first answers MISMATCH when the second issuance drew a different
\* code and the verification is made no later than the stored record's expiresAt
\* (with the same code it answers OK, and after the expiry EXPIRED).
C5_FirstCodeMismatchesIfDistinct ==
    VerifiedFirstOfTwo =>
        /\ lastResp.snap.exists
        /\ lastResp.snap.data.otp = lastResp.seen.curOtp
        /\ lastResp.result =
              IF lastResp.at > lastResp.snap.data.expiresAt THEN "EXPIRED"
              ELSE IF lastResp.seen.prev = lastResp.seen.curOtp THEN "OK"
              ELSE "MISMATCH"

\* the first of two different codes has been refused before the expiry
C5_Witness ==
    /\ VerifiedFirstOfTwo
    /\ lastResp.seen.prev # lastResp.seen.curOtp
    /\ lastResp.result = "MISMATCH"

\* C6: once verify-otp has answered OK for a key, a further verify-otp with the
\* same code and no issuance in between answers NOT_FOUND.
C6_SecondVerifyNotFound ==
    (/\ Answered("verify-otp")
     /\ lastResp.seen.state = "OK"
     /\ lastResp.otp = lastResp.seen.curOtp)
        => lastResp.result = "NOT_FOUND"

\* the code that was just accepted has been tried again
C6_Witness ==
    /\ Answered("verify-otp")
    /\ lastResp.seen.state = "OK"
    /\ lastResp.otp = lastResp.seen.curOtp
    /\ lastResp.result = "NOT_FOUND"

\* C21: a verify-otp answered MISMATCH leaves the otps collection as it was, and a
\* verify-otp with the code of the latest issuance, made after such answers and no
\* later than the stored expiresAt, answers OK.
C21_MismatchKeepsRecord ==
    /\ [][(lastResp'.op = "verify-otp" /\ lastResp'.result = "MISMATCH")
            => otps' = otps]_vars
    /\ [](( /\ Answered("verify-otp")
            /\ lastResp.seen.state = "tried"
            /\ lastResp.otp = lastResp.seen.curOtp
            /\ (lastResp.snap.exists => lastResp.at <= lastResp.snap.data.expiresAt))
              => lastResp.result = "OK")

\* the correct code has been accepted after a wrong one was refused
C21_Witness ==
    /\ Answered("verify-otp")
    /\ lastResp.seen.state = "tried"
    /\ lastResp.otp = lastResp.seen.curOtp
    /\ lastResp.result = "OK"

SixDigits(code) ==
    /\ Len(code) = 6
    /\ \A i \in 1..Len(code) : SubSeq(code, i, i) \in DecimalDigits
\* some value of Math.random() makes send-otp issue this code: the number rendered
\* is OtpBase + r for a draw r below OtpSpan, and only the number a code writes can
\* be rendered as that code
CanBeProduced(code) ==
    LET r == ParseDecimal(code) - OtpBase
    IN  r \in 0..(OtpSpan - 1) /\ OtpFromRandom(r) = code
\* codes of the range "000000" to "999999"
CodeSamples == {"000000", "000001", "012345", "099999", "100000", "500000", "999999"}

\* C22 as stated: every code issued by send-otp is a string of exactly 6 decimal
\* digits, and every value from "000000" to "999999", leading zeros included, can
\* be issued.
C22_AnySixDigitCode ==
    (lastResp.op = "send-otp" /\ lastResp.result # "REQUIRED") =>
        /\ SixDigits(lastResp.otp)
        /\ \A code \in CodeSamples : CanBeProduced(code)

\* C22 (amended): every code issued by send-otp is a string of exactly 6 decimal
\* digits whose first digit is not 0, and the values that can be issued are those
\* from "100000" to "999999": no value with a leading zero is.
C22_SixDigitsNoLeadingZero ==
    (lastResp.op = "send-otp" /\ lastResp.result # "REQUIRED") =>
        /\ SixDigits(lastResp.otp)
        /\ SubSeq(lastResp.otp, 1, 1) # "0"
        /\ \A code \in CodeSamples :
              CanBeProduced(code) <=> SubSeq(code, 1, 1) # "0"

\* the smallest code has been issued
C22_Witness ==
    /\ lastResp.op = "send-otp"
    /\ lastResp.result # "REQUIRED"
    /\ lastResp.otp = "100000"
\* the largest code has been issued
C22_WitnessLargest ==
    /\ lastResp.op = "send-otp"
    /\ lastResp.result # "REQUIRED"
    /\ lastResp.otp = "999999"

\* C23: when send-otp found no identity for the email, or the credential update was
\* rejected, the record is stored under the key with the code just drawn and the
\* answer is the one of the delivery: success when the mail was sent.
C23_SyncFailureNeverBlocks ==
    (/\ lastResp.op = "send-otp"
     /\ lastResp.result # "REQUIRED"
     /\ lastResp.sync \in {"NO_IDENTITY", "UPDATE_FAILED"})
        => /\ encodeURIComponent(lastResp.email) \in DOMAIN otps
           /\ otps[encodeURIComponent(lastResp.email)].otp = lastResp.otp
           /\ lastResp.result \in {"SENT", "TRANSPORT_ERROR", "NOT_CONFIGURED"}
           /\ lastResp.result = "SENT" => lastResp.status = 200

\* a passcode has been issued although the credential update was rejected
C23_Witness ==
    /\ lastResp.op = "send-otp"
    /\ lastResp.result = "SENT"
    /\ lastResp.sync = "UPDATE_FAILED"
    /\ lastResp.status = 200
\* a passcode has been issued for an email without identity
C23_WitnessNoIdentity ==
    /\ lastResp.op = "send-otp"
    /\ lastResp.result = "SENT"
    /\ lastResp.sync = "NO_IDENTITY"
    /\ lastResp.status = 200

\* C7 as stated: whatever the interleaving of concurrent verify-otp requests, at most
\* one of them answers OK for one issuance.
C7_AtMostOneOkPerIssuance ==
    Answered("verify-otp") => ~lastResp.again

\* C8: a verify-otp made after the stored expiresAt answers EXPIRED whatever the
\* code, the correct one included, and leaves no record; the next verify-otp for
\* the key without a new issuance answers NOT_FOUND.
C8_ExpiredThenNotFound ==
    Answered("verify-otp") =>
        /\ (lastResp.snap.exists /\ lastResp.at > lastResp.snap.data.expiresAt)
              => (lastResp.result = "EXPIRED" /\ ~lastResp.docAfter)
        /\ lastResp.seen.state = "EXPIRED" => lastResp.result = "NOT_FOUND"

\* the correct code has been refused as expired
C8_WitnessCorrectCode ==
    /\ Answered("verify-otp")
    /\ lastResp.snap.exists
    /\ lastResp.snap.data.otp = lastResp.otp
    /\ lastResp.result = "EXPIRED"

\* a verify-otp has followed one answered EXPIRED
C8_Witness ==
    /\ Answered("verify-otp")
    /\ lastResp.seen.state = "EXPIRED"
    /\ lastResp.result = "NOT_FOUND"

\* C9 as stated: the passcode store never holds two records for one address, also
\* when requests spell the address in different letter case.
C9_OneRecordPerNormalizedEmail ==
    \A k1, k2 \in DOMAIN otps :
        NormalizedEmailOfKey(k1) = NormalizedEmailOfKey(k2) => k1 = k2

----------------------------------------------------------------------------
(* Identity reconciliation: properties *)

\* the identity-provider records kept for an address
IdentitiesOf(emailLower) == {u \in DOMAIN auth : auth[u].email = emailLower}

\* a reconciliation has just succeeded for an address that the previous call, also
\* successful, had found without an identity: the first and the second call
EnsuredTwice ==
    /\ lastResp.op \in EnsureOps
    /\ lastResp.ok
    /\ lastResp.prior.any
    /\ lastResp.prior.before = NoUid

\* C10 as stated: two calls of ensure for one email return the same identityId, the
\* first reports created = true and the second created = false, and the identity
\* provider holds exactly one record for the email.
C10_EnsureTwiceSameIdentity ==
    EnsuredTwice =>
        /\ lastResp.body.uid = lastResp.prior.body.uid
        /\ "created" \in DOMAIN lastResp.prior.body /\ lastResp.prior.body.created = TRUE
        /\ "created" \in DOMAIN lastResp.body /\ lastResp.body.created = FALSE
        /\ Cardinality(IdentitiesOf(lastResp.email)) = 1

\* what holds of both implementations: the same uid both times and one record
EnsureTwiceOneIdentity ==
    EnsuredTwice =>
        /\ lastResp.body.uid = lastResp.prior.body.uid
        /\ IdentitiesOf(lastResp.email) = {lastResp.body.uid}

\* what holds of the tool: run twice, it prints created true, then false
EnsureUserToolReportsCreated ==
    (/\ EnsuredTwice
     /\ lastResp.op = "createUser.js"
     /\ "created" \in DOMAIN lastResp.prior.body)
        => lastResp.prior.body.created = TRUE /\ lastResp.body.created = FALSE

\* the route has answered twice for one address
EnsureAuthUserTwice ==
    /\ EnsuredTwice
    /\ lastResp.op = "ensure-auth-user"
    /\ "created" \notin DOMAIN lastResp.prior.body
\* the tool has run twice for one address
EnsureUserToolTwice ==
    /\ EnsuredTwice
    /\ lastResp.op = "createUser.js"
    /\ "created" \in DOMAIN lastResp.prior.body

----------------------------------------------------------------------------
(* Account administration: properties of create-admin *)

\* create-admin has reconciled the identity and written the profile
CreateAdminWrote ==
    /\ lastResp.op = "create-admin"
    /\ lastResp.written

\* C16 as stated: once create-admin has created or recovered the identity and
\* written the Account record, it reports success and the record stays, whatever
\* the mail step comes to (SENT, NOT_CONFIGURED or TRANSPORT_ERROR).
C16_MailNeverFailsCreate ==
    CreateAdminWrote =>
        /\ lastResp.status = 200
        /\ lastResp.uid \in DOMAIN users
        /\ lastResp.uid \in DOMAIN auth

\* the part of C16 that holds: the record is never rolled back, and a transport
\* that fails while sending still reports success
CreateAdminKeepsRecord ==
    CreateAdminWrote =>
        /\ lastResp.uid \in DOMAIN users
        /\ lastResp.uid \in DOMAIN auth
        /\ (lastResp.mail # "NOT_CONFIGURED" => lastResp.status = 200)

\* C17 as stated: the role persisted by create-admin is the requested role when
\* that is 'admin' or 'employee', and 'employee' for every other requested value,
\* an absent one included.
C17_RoleAsRequestedOrEmployee ==
    CreateAdminWrote =>
        users[lastResp.uid].role =
            IF lastResp.body.role \in {"admin", "employee"} THEN lastResp.body.role
            ELSE "employee"

\* C17 (amended): the role persisted by create-admin is always 'admin' or
\* 'employee': it is the requested role, trimmed of surrounding white space and
\* lower-cased, when that is one of these two, and 'employee' for every other
\* requested value, an absent one included.
C17_RoleNormalizedOrEmployee ==
    CreateAdminWrote =>
        /\ users[lastResp.uid].role \in {"admin", "employee"}
        /\ users[lastResp.uid].role =
              IF ToLowerCase(Trim(lastResp.body.role)) \in {"admin", "employee"}
              THEN ToLowerCase(Trim(lastResp.body.role))
              ELSE "employee"

\* a role outside the allow-set was asked for and 'employee' is persisted
C17_Witness ==
    /\ CreateAdminWrote
    /\ lastResp.body.role = "superadmin"
    /\ users[lastResp.uid].role = "employee"
\* 'ADMIN ' was asked for and 'admin' is persisted
C17_WitnessOtherSpelling ==
    /\ CreateAdminWrote
    /\ lastResp.body.role = "ADMIN "
    /\ users[lastResp.uid].role = "admin"

\* create-admin has written a profile for a request with this full name and no
\* name part given
ParsedFrom(fullName) ==
    /\ CreateAdminWrote
    /\ lastResp.body.fullName = fullName
    /\ lastResp.body.lastName = <<>>
    /\ lastResp.body.firstName = <<>>
    /\ lastResp.body.middleName = <<>>
StoredNameParts(last, first, middle) ==
    /\ users[lastResp.uid].lastName = last
    /\ users[lastResp.uid].firstName = first
    /\ users[lastResp.uid].middleName = middle

\* C20 as stated: "Dela Cruz, Juan Miguel" gives last "Dela Cruz", first "Juan",
\* middle "Miguel"; "Juan Dela Cruz" gives first "Juan", middle "", last "Cruz".
C20_NameExamples ==
    /\ ParsedFrom(DelaCruzJuanMiguel)
          => StoredNameParts(<<"Dela", SP, "Cruz">>, <<"Juan">>, <<"Miguel">>)
    /\ ParsedFrom(JuanDelaCruz) => StoredNameParts(<<"Cruz">>, <<"Juan">>, <<>>)

\* C20 (amended): "Dela Cruz, Juan Miguel" gives last "Dela Cruz", first "Juan",
\* middle "Miguel"; "Juan Dela Cruz" gives first "Juan", middle "Dela", last
\* "Cruz": without a comma the interior words are the middle name.
C20_NameExamplesInteriorIsMiddle ==
    /\ ParsedFrom(DelaCruzJuanMiguel)
          => StoredNameParts(<<"Dela", SP, "Cruz">>, <<"Juan">>, <<"Miguel">>)
    /\ ParsedFrom(JuanDelaCruz) => StoredNameParts(<<"Cruz">>, <<"Juan">>, <<"Dela">>)

\* "Juan Dela Cruz" has been parsed
C20_Witness ==
    /\ ParsedFrom(JuanDelaCruz)
    /\ StoredNameParts(<<"Cruz">>, <<"Juan">>, <<"Dela">>)
\* "Dela Cruz, Juan Miguel" has been parsed
C20_WitnessComma ==
    /\ ParsedFrom(DelaCruzJuanMiguel)
    /\ StoredNameParts(<<"Dela", SP, "Cruz">>, <<"Juan">>, <<"Miguel">>)

----------------------------------------------------------------------------
(* Account administration: properties of the admin routes *)

GatedOps == {"create-admin", "delete-admin", "archive-admin"}
\* the request carries a bearer token that verifies, for a uid whose profile holds
\* the role 'admin'
CallerIsAdmin(header) ==
    /\ header.bearer
    /\ header.verifies
    /\ header.uid \in DOMAIN users
    /\ "role" \in DOMAIN users[header.uid]
    /\ users[header.uid].role = "admin"

\* C11: a create-admin, delete-admin or archive-admin request without a bearer
\* token that verifies and whose account's stored role is exactly 'admin' is
\* answered 401 or 403 and writes nothing to Firebase Auth or to Firestore.
C11_NoWriteUnlessAdmin ==
    [][(lastResp'.op \in GatedOps /\ ~CallerIsAdmin(lastResp'.header))
          => /\ lastResp'.status \in {401, 403}
             /\ auth' = auth
             /\ users' = users
             /\ vaccineStock' = vaccineStock
             /\ otps' = otps]_vars

\* a caller whose stored role is 'superadmin' has been refused
C11_Witness ==
    /\ lastResp.op \in GatedOps
    /\ lastResp.status = 403
    /\ lastResp.header.uid \in DOMAIN users
    /\ "role" \in DOMAIN users[lastResp.header.uid]
    /\ users[lastResp.header.uid].role = "superadmin"

\* delete-admin has passed the gate and the test of the uid
DeleteAdminRan ==
    /\ lastResp.op = "delete-admin"
    /\ lastResp.status \notin {400, 401, 403}

C15_WitnessRepeat ==
    /\ DeleteAdminRan
    /\ lastResp.repeat
    /\ ~lastResp.changed

\* C18 as stated: create-admin and ensure-auth-user leave the activation status of
\* an account that exists as it was: the disabled flag of its identity and the
\* isActive of its profile.
C18_OnlyArchiveChangesActivation ==
    /\ (lastResp.op = "create-admin" /\ lastResp.written /\ lastResp.was.identity)
          => /\ auth[lastResp.uid].disabled = lastResp.was.disabled
             /\ lastResp.was.profile
                   => users[lastResp.uid].isActive = lastResp.was.isActive
    /\ (lastResp.op = "ensure-auth-user" /\ lastResp.ok /\ lastResp.was.identity)
          => auth[lastResp.body.uid].disabled = lastResp.was.disabled

\* C19 as stated: the email of every profile is in lower case, whatever
\* create-admin, verify-email-change and archive-admin calls were made.
C19_StoredEmailsLowercase ==
    \A uid \in DOMAIN users :
        "email" \in DOMAIN users[uid] => users[uid].email = ToLowerCase(users[uid].email)

----------------------------------------------------------------------------
(* Account administration: properties of the cascade over the inventory *)

\* archive-admin has answered success for a profile that holds an email, the
\* inventory store having done what it was asked
ArchiveReturned(disable) ==
    /\ lastResp.op = "archive-admin"
    /\ lastResp.status = 200
    /\ lastResp.disable.value = disable
    /\ lastResp.userEmail # NoField
    /\ lastResp.inventory = "OK"

\* C12 as stated: when archive-admin with disable = true returns for an account
\* whose stored email is E, every vaccineStock document created by E has
\* isArchived = true and carries archivedAt and archivedBy.
C12_ArchiveCascades ==
    ArchiveReturned(TRUE) =>
        \A id \in StockMatching(vaccineStock, lastResp.userEmail) :
            /\ vaccineStock[id].isArchived
            /\ {"archivedAt", "archivedBy"} \subseteq DOMAIN vaccineStock[id]

\* C13: when archive-admin with disable = false returns for an account whose stored
\* email is E and the inventory store accepted the batch, every vaccineStock
\* document created by E has isArchived = false and neither archivedAt nor
\* archivedBy.
C13_UnarchiveCascades ==
    ArchiveReturned(FALSE) =>
        \A id \in StockMatching(vaccineStock, lastResp.userEmail) :
            /\ ~vaccineStock[id].isArchived
            /\ {"archivedAt", "archivedBy"} \cap DOMAIN vaccineStock[id] = {}

\* an archived document has been unarchived by the cascade
C13_Witness ==
    /\ ArchiveReturned(FALSE)
    /\ lastResp.committed
    /\ lastResp.touched # {}

\* C14: in every step, the vaccineStock documents that change are documents of one
\* cascade, and with them every document the cascade matched carries the new
\* isArchived value; no other step of archive-admin, failing or not, changes any.
C14_CascadeAllOrNothing ==
    [][LET changed == {id \in DOMAIN vaccineStock : vaccineStock'[id] # vaccineStock[id]}
       IN  \/ changed = {}
           \/ \E req \in BagToSet(inflight) :
                /\ req.op = "archive-admin" /\ req.pc = "commit"
                /\ changed \subseteq req.ids
                /\ \A id \in req.ids : vaccineStock'[id].isArchived = req.disable.value]_vars

\* a cascade over two documents has been committed
C14_Witness ==
    /\ lastResp.op = "archive-admin"
    /\ lastResp.status = 200
    /\ lastResp.committed
    /\ Cardinality(lastResp.touched) >= 2
\* a cascade has failed at its commit and changed nothing
C14_WitnessFailed ==
    /\ lastResp.op = "archive-admin"
    /\ lastResp.status = 200
    /\ lastResp.inventory = "COMMIT_FAILED"
    /\ lastResp.ids # {}
    /\ lastResp.touched = {}

\* C27: whatever other properties the request carries, the profile create-admin
\* writes holds the email, role, isEmailVerified, isActive, createdAt and name parts
\* the server computed, and no password and no uid.
C27_SystemFieldsNotOverridden ==
    CreateAdminWrote =>
        LET doc == users[lastResp.uid]
            body == lastResp.body
            parsed == ParseName(body.lastName, body.firstName, body.middleName,
                                body.fullName)
        IN  /\ doc.email = ToLowerCase(body.email)
            /\ doc.role = RequestedRole(body.role)
            /\ doc.isEmailVerified = TRUE
            /\ doc.isActive = TRUE
            /\ doc.createdAt = now
            /\ doc.lastName = parsed.lastName
            /\ doc.firstName = parsed.firstName
            /\ doc.middleName = parsed.middleName
            /\ {"password", "uid"} \cap DOMAIN doc = {}

\* a request that carried system-managed attributes has been stored with its own
\* field
C27_Witness ==
    /\ CreateAdminWrote
    /\ {"isActive", "uid", "createdAt", "isEmailVerified"} \subseteq DOMAIN lastResp.body.extra
    /\ "unit" \in DOMAIN users[lastResp.uid]
    /\ users[lastResp.uid].isActive = TRUE

----------------------------------------------------------------------------
(* delete-admin with failing calls *)

\* C28 as stated: whenever delete-admin reports success, users holds no document
\* under the uid, also when the delete of the document fails.
C28_SuccessMeansNoRecord ==
    (lastResp.op = "delete-admin" /\ lastResp.status = 200)
        => lastResp.uid \notin DOMAIN users

\* what holds: the same when Firestore performs the delete
SuccessMeansNoRecordIfStoreDeletes ==
    (lastResp.op = "delete-admin" /\ lastResp.status = 200 /\ lastResp.store = "OK")
        => lastResp.uid \notin DOMAIN users

\* the delete by uid has failed for a uid whose profile holds an email that
\* getUserByEmail finds
DeletedByEmail ==
    /\ lastResp.op = "delete-admin"
    /\ lastResp.status = 200
    /\ ~lastResp.was.identity \/ lastResp.authOutcome = "BY_UID_FAILED"
    /\ lastResp.email # NoField
    /\ lastResp.found

----------------------------------------------------------------------------
(* archive-admin with a failing cascade *)

\* archive-admin has passed its checks and the cascade has failed: the query or the
\* commit was rejected, or building the batch threw
CascadeFailed ==
    /\ lastResp.op = "archive-admin"
    /\ "inventory" \in DOMAIN lastResp
    /\ \/ lastResp.inventory \in {"QUERY_FAILED", "COMMIT_FAILED"}
       \/ lastResp.disable.value /\ lastResp.ids # {} /\ ~lastResp.committed

\* C30: when the query or the update of vaccineStock fails, archive-admin still
\* answers success, and the profile's isActive is the negation of the flag.
C30_CascadeFailureNeverFails ==
    CascadeFailed =>
        /\ lastResp.status = 200
        /\ lastResp.uid \in DOMAIN users
        /\ users[lastResp.uid].isActive = ~lastResp.disable.value

\* the commit of a cascade over some documents has been rejected
C30_Witness ==
    /\ CascadeFailed
    /\ lastResp.inventory = "COMMIT_FAILED"
    /\ lastResp.ids # {}
    /\ lastResp.status = 200
\* the query has been rejected
C30_WitnessQuery ==
    /\ CascadeFailed
    /\ lastResp.inventory = "QUERY_FAILED"
    /\ lastResp.status = 200

----------------------------------------------------------------------------
(* Names: the rule for a full name *)

\* the tokens of a text: its pieces between white space
TokensOf(s) == SelectSeq(SplitOn(s, SP), LAMBDA t : t # <<>>)
RECURSIVE JoinTokens(_)
JoinTokens(tokens) ==
    IF tokens = <<>> THEN <<>>
    ELSE IF Len(tokens) = 1 THEN tokens[1]
    ELSE tokens[1] \o <<SP>> \o JoinTokens(Tail(tokens))
\* with a comma: the text before the first comma is the last name, the first token
\* after it the first name, the remaining tokens the middle name; without: first
\* token, last token, and the tokens between them
NameRule(fullName) ==
    LET f == trim(fullName)
        i == CHOOSE i \in 1..Len(f) : f[i] = COMMA /\ \A j \in 1..(i - 1) : f[j] # COMMA
        after == TokensOf(SubSeq(f, i + 1, Len(f)))
        all == TokensOf(f)
    IN  IF Includes(f, COMMA)
        THEN [lastName |-> trim(SubSeq(f, 1, i - 1)),
              firstName |-> IF after = <<>> THEN <<>> ELSE after[1],
              middleName |-> JoinTokens(SubSeq(after, 2, Len(after)))]
        ELSE [lastName |-> all[Len(all)],
              firstName |-> all[1],
              middleName |-> JoinTokens(SubSeq(all, 2, Len(all) - 1))]
\* create-admin has written a profile for a request with a full name and without a
\* last name or without a first name
ParsedFullName ==
    /\ CreateAdminWrote
    /\ trim(lastResp.body.lastName) = <<>> \/ trim(lastResp.body.firstName) = <<>>
    /\ trim(lastResp.body.fullName) # <<>>
StoredByRule ==
    LET rule == NameRule(lastResp.body.fullName)
    IN  StoredNameParts(OrElse(trim(lastResp.body.lastName), rule.lastName),
                        OrElse(trim(lastResp.body.firstName), rule.firstName),
                        OrElse(trim(lastResp.body.middleName), rule.middleName))
Commas(s) == Cardinality({i \in 1..Len(s) : s[i] = COMMA})

\* C26 as stated: for a request without a first or a last name and with a full name,
\* the parts stored are those the rule gives for the full name, each replaced by the
\* part the request supplies.
C26_NameRule ==
    ParsedFullName => StoredByRule

\* what holds: the same for a full name with at most one comma
NameRuleUpToOneComma ==
    (ParsedFullName /\ Commas(lastResp.body.fullName) <= 1) => StoredByRule

----------------------------------------------------------------------------
(* Identity reconciliation for an email that has an identity *)

ResetOps == EnsureOps \cup {"create-admin"}
\* a reconciliation has come to its identity step for an email that had an identity
ResetRan(resp) ==
    /\ resp.op \in ResetOps
    /\ "asked" \in DOMAIN resp
    /\ resp.asked # NoField
    /\ resp.before # NoUid
\* the identity step went through
ResetWentThrough(resp) ==
    IF resp.op = "create-admin" THEN resp.written ELSE resp.ok
\* the identity holds the password of this call and is enabled and verified
IdentityReset(resp) ==
    /\ resp.before \in DOMAIN auth
    /\ auth[resp.before].password = resp.asked
    /\ auth[resp.before].emailVerified
    /\ ~auth[resp.before].disabled

\* C24 as stated: when ensure or create-admin is called for an email that has an
\* identity, that identity holds the password derived for the call afterwards and
\* is enabled and email-verified.
C24_ExistingIdentityReset ==
    ResetRan(lastResp) => IdentityReset(lastResp)

\* C24 (amended): when ensure or create-admin is called for an email that has an
\* identity and the identity provider accepts the derived password, that identity
\* holds the password afterwards and is enabled and email-verified; when it refuses
\* the password the call fails and no identity is changed.
C24_ExistingIdentityResetIfAccepted ==
    /\ []((ResetRan(lastResp) /\ ResetWentThrough(lastResp)) => IdentityReset(lastResp))
    /\ [][(ResetRan(lastResp') /\ ~ResetWentThrough(lastResp'))
            => (auth' = auth /\ ~ValidPassword(lastResp'.asked))]_vars

\* a disabled identity has been given the password of the call and enabled
C24_Witness ==
    /\ ResetRan(lastResp)
    /\ ResetWentThrough(lastResp)
    /\ lastResp.was.disabled
    /\ IdentityReset(lastResp)

----------------------------------------------------------------------------
(* The password ensure-auth-user derives *)

\* String(n).padStart(4, '0')
PadStart4(n) ==
    IF n < 10 THEN "000" \o ToString(n)
    ELSE IF n < 100 THEN "00" \o ToString(n)
    ELSE IF n < 1000 THEN "0" \o ToString(n)
    ELSE ToString(n)
\* month, day and year of the date a birthday names, in two, two and four digits
MMDDYYYY(date) == PadStart2(date.m) \o PadStart2(date.d) \o PadStart4(date.y)
DerivedPassword(req) ==
    IF req.password # NoField THEN req.password
    ELSE IF req.birthday # NoField /\ NewDate(req.birthday).valid
    THEN MMDDYYYY(NewDate(req.birthday))
    ELSE req.random

\* C25 as stated: the password ensure-auth-user uses is the explicit password when
\* one is given; otherwise, when the birthday is a valid date, the 8 characters
\* MMDDYYYY of that date; otherwise the random fallback.
C25_PasswordDerivation ==
    [][\A req \in BagToSet(inflight) :
          (/\ req.op = "ensure-auth-user"
           /\ req \notin BagToSet(inflight')
           /\ lastResp'.asked # NoField)
              => lastResp'.asked = DerivedPassword(req)]_vars

\* what holds: the derivation is the stated one on a server whose time zone is not
\* west of UTC, for birthdays of the years 1000 to 9999
PasswordDerivationEastOfUTC ==
    [][\A req \in BagToSet(inflight) :
          (/\ req.op = "ensure-auth-user"
           /\ req \notin BagToSet(inflight')
           /\ lastResp'.asked # NoField
           /\ req.tz >= UTC
           /\ NewDate(req.birthday).valid => NewDate(req.birthday).y >= 1000)
              => lastResp'.asked = DerivedPassword(req)]_vars
\* what holds: an explicit password is used as it is, whatever the birthday
ExplicitPasswordWins ==
    [][\A req \in BagToSet(inflight) :
          (/\ req.op = "ensure-auth-user"
           /\ req \notin BagToSet(inflight')
           /\ lastResp'.asked # NoField
           /\ req.password # NoField)
              => lastResp'.asked = req.password]_vars

----------------------------------------------------------------------------
(* Identity reconciliation: concurrent calls for one address *)

\* create-admin or ensure-auth-user has answered a request that passed the gate
Reconciled ==
    /\ lastResp.op \in ReconcileOps
    /\ "email" \in DOMAIN lastResp

----------------------------------------------------------------------------
(* force-password-change and the stored passcode *)

\* force-password-change has set the password of the identity of the email
PasswordForced ==
    /\ lastResp.op = "force-password-change"
    /\ lastResp.status = 200
    /\ lastResp.updated

\* C32: force-password-change sets the password only when the code sent equals the
\* code of the passcode document held for the email and that document has not
\* expired; without a document, with an expired one or with another code the
\* password stays as it was.
C32_ForceOnlyWithStoredPasscode ==
    PasswordForced =>
        VerifyOtpOutcome(lastResp.snap, lastResp.otp, lastResp.at).result = "OK"

\* the password was set although no passcode document is held for the email
ForcedWithoutPasscode ==
    /\ PasswordForced
    /\ ~lastResp.snap.exists
    /\ auth[lastResp.uid].password = lastResp.otp

\* the password was set to a code other than the one held for the email
ForcedWithOtherPasscode ==
    /\ PasswordForced
    /\ lastResp.snap.exists
    /\ lastResp.snap.data.otp # lastResp.otp
    /\ auth[lastResp.uid].password = lastResp.otp

----------------------------------------------------------------------------
(* The password of the identity and the stored passcode, under concurrent send-otp *)

\* no send-otp request is between its arrival and its response
NoSendOtpInProgress == \A req \in BagToSet(inflight) : req.op # "send-otp"

\* every send-otp answered so far found the identity and updated its password; a
\* passcode document is held for the email
IssuedAndSynced(email) ==
    /\ NoSendOtpInProgress
    /\ getUserByEmail(email) # NoUid
    /\ encodeURIComponent(email) \in DOMAIN otps

\* C33: whenever no send-otp for an email is in progress and the issuances updated
\* the password of its identity, that password equals the code of the passcode
\* document held for the email, concurrent send-otp requests for it included.
C33_CredentialEqualsStoredCode ==
    \A email \in Emails :
        IssuedAndSynced(email) =>
            auth[getUserByEmail(email)].password = otps[encodeURIComponent(email)].otp

\* two send-otp requests have been answered, nothing is in progress, and the
\* identity's password is a code that was issued while the document holds another
CredentialAndRecordDiffer ==
    /\ IssuedAndSynced("a@x.com")
    /\ lastResp.op = "send-otp"
    /\ auth[1].password \in OtpCodes
    /\ auth[1].password # otps[encodeURIComponent("a@x.com")].otp

----------------------------------------------------------------------------
(* verify-email-change: Firebase Auth first, the users document after *)

\* verify-email-change has answered for a link that verified, after calling updateUser
EmailChangeAttempted(resp) ==
    /\ resp.op = "verify-email-change"
    /\ "code" \in DOMAIN resp

C34_WitnessChanged ==
    /\ EmailChangeAttempted(lastResp)
    /\ lastResp.code = "ok"
    /\ users[lastResp.uid].email = lastResp.newEmail
    /\ auth[lastResp.uid].email = ToLowerCase(lastResp.newEmail)

=============================================================================
